---- MODULE Spec2Model ----
(***************************************************************************)
(* Light-pollution raster query engine (map_app/models/optimal_locations). *)
(*                                                                         *)
(* Conventions of the model                                                *)
(*   - a latitude or longitude is an integer count of 1/Unit degrees       *)
(*     (Unit = 240: every pixel centre of the 120 px/degree rasters is a   *)
(*     whole number of units);                                             *)
(*   - a pollution level is stored doubled (level 1.5 is 3), so the        *)
(*     half-integer scale stays in the integers;                           *)
(*   - a distance is a whole number of metres;                             *)
(*   - the file system is outside the program: every access to a raster    *)
(*     resource observes one of FileStates.                                *)
(***************************************************************************)
EXTENDS Integers, Sequences, FiniteSets, TLC

VARIABLES map_cache, reads, call, scan, threads,
          model_resource, data_cache, visibility,
          fetchers, weather_cache, weather,
          nearby

\* The state of the sky visibility service.
service_vars == <<model_resource, data_cache, visibility>>

\* The state of the weather service.
weather_vars == <<fetchers, weather_cache, weather>>

vars == <<map_cache, reads, call, scan, threads, service_vars, weather_vars, nearby>>

(***************************************************************************)
(* Bounds of the model.                                                    *)
(***************************************************************************)
MaxRadius == 2
MaxTopN == 3
MaxReads == 2
NumThreads == 2

(***************************************************************************)
(* CONTINENTS, in the enumeration order of the dict (insertion order).     *)
(* Bounds are whole degrees, as in the source.                             *)
(***************************************************************************)
Region(name, lon_min, lat_min, lon_max, lat_max, width, height, filename) ==
    [name |-> name, lon_min |-> lon_min, lat_min |-> lat_min,
     lon_max |-> lon_max, lat_max |-> lat_max,
     width |-> width, height |-> height, filename |-> filename]

CONTINENTS ==
    << Region("North America", -180, 7, -51, 75, 15480, 8160, "NorthAmerica2024.png"),
       Region("South America", -93, -57, -33, 14, 7200, 8520, "SouthAmerica2024.png"),
       Region("Europe", -32, 34, 70, 75, 12240, 4920, "Europe2024.png"),
       Region("Africa", -26, -36, 64, 38, 10800, 8800, "Africa2024.png"),
       Region("Asia", 60, 5, 180, 75, 14400, 8400, "Asia2024.png"),
       Region("Australia", 94, -48, 180, 8, 10320, 6720, "Australia2024.png") >>

RegionNames == { CONTINENTS[i].name : i \in 1..Len(CONTINENTS) }

\* Units per degree: twice the rasters' 120 pixels per degree.
Unit == 2 * (CONTINENTS[1].width \div (CONTINENTS[1].lon_max - CONTINENTS[1].lon_min))

\* The value None, as a record so that it compares with region records.
None == [name |-> "None"]

IsNone(v) == v.name = "None"

(***************************************************************************)
(* _get_region_info: linear scan of CONTINENTS, first containing box wins. *)
(***************************************************************************)
\* As RegionContains, the upper bounds exclusive.
RegionContainsHalfOpen(values, latitude, longitude) ==
    /\ values.lat_min * Unit <= latitude
    /\ latitude < values.lat_max * Unit
    /\ values.lon_min * Unit <= longitude
    /\ longitude < values.lon_max * Unit

RegionContains(values, latitude, longitude) ==
    /\ values.lat_min * Unit <= latitude
    /\ latitude <= values.lat_max * Unit
    /\ values.lon_min * Unit <= longitude
    /\ longitude <= values.lon_max * Unit

RECURSIVE ScanRegions(_, _, _)
ScanRegions(i, latitude, longitude) ==
    IF i > Len(CONTINENTS) THEN None
    ELSE IF RegionContains(CONTINENTS[i], latitude, longitude) THEN CONTINENTS[i]
    ELSE ScanRegions(i + 1, latitude, longitude)

get_region_info(latitude, longitude) == ScanRegions(1, latitude, longitude)

(***************************************************************************)
(* LIGHT_POLLUTION_SCALE, in the enumeration order of the dict.  Entry:    *)
(* <<r, g, b, 2 * level>>.                                                 *)
(***************************************************************************)
LIGHT_POLLUTION_SCALE ==
    << <<0, 0, 0, 0>>,        <<34, 34, 34, 2>>,     <<66, 66, 66, 3>>,
       <<20, 47, 114, 4>>,    <<33, 84, 216, 5>>,    <<15, 87, 20, 6>>,
       <<31, 161, 42, 7>>,    <<110, 100, 30, 8>>,   <<184, 166, 37, 9>>,
       <<191, 100, 30, 10>>,  <<253, 150, 80, 11>>,  <<251, 90, 73, 12>>,
       <<251, 153, 138, 13>>, <<160, 160, 160, 14>>, <<242, 242, 242, 15>> >>

\* closest_level = 4 before the loop (doubled).
DefaultLevel == 2 * 4

\* min_distance = float('inf') before the loop: above every squared distance.
Infinity == 3 * 255 * 255 + 1

SqDistance(rgb, color) ==
    (rgb[1] - color[1]) * (rgb[1] - color[1])
    + (rgb[2] - color[2]) * (rgb[2] - color[2])
    + (rgb[3] - color[3]) * (rgb[3] - color[3])

\* As ClosestFrom, the update on <= : of equidistant entries the last wins.
RECURSIVE ClosestFromLast(_, _, _, _)
ClosestFromLast(i, rgb, min_distance, closest_level) ==
    IF i > Len(LIGHT_POLLUTION_SCALE) THEN closest_level
    ELSE LET distance == SqDistance(rgb, LIGHT_POLLUTION_SCALE[i])
         IN  IF distance <= min_distance
             THEN ClosestFromLast(i + 1, rgb, distance, LIGHT_POLLUTION_SCALE[i][4])
             ELSE ClosestFromLast(i + 1, rgb, min_distance, closest_level)

\* The loop of _get_light_pollution_level from entry i on, with the running
\* minimum and level; the update is on strict < only.
RECURSIVE ClosestFrom(_, _, _, _)
ClosestFrom(i, rgb, min_distance, closest_level) ==
    IF i > Len(LIGHT_POLLUTION_SCALE) THEN closest_level
    ELSE LET distance == SqDistance(rgb, LIGHT_POLLUTION_SCALE[i])
         IN  IF distance < min_distance
             THEN ClosestFrom(i + 1, rgb, distance, LIGHT_POLLUTION_SCALE[i][4])
             ELSE ClosestFrom(i + 1, rgb, min_distance, closest_level)

get_light_pollution_level(rgb) == ClosestFrom(1, rgb, Infinity, DefaultLevel)

(***************************************************************************)
(* Rasters.  The shipped PNG files are not part of the sources; a raster   *)
(* of the model is a periodic pattern over a palette of scale colours and  *)
(* of re-encoded colours: pixel (x, y) holds Palette[(a*x + b*y + c) mod   *)
(* Len(Palette) + 1].  A map_array is [image, shape], shape = <<height,    *)
(* width>> as numpy gives it.                                              *)
(***************************************************************************)
Palette ==
    << <<0, 0, 0>>, <<191, 100, 30>>, <<34, 34, 34>>, <<17, 17, 17>>, <<250, 250, 250>> >>

Images == { [a |-> a, b |-> b, c |-> c] : a \in 0..2, b \in 0..2, c \in 0..4 }

\* The image each raster resource decodes to.
StoredImage(filename) ==
    CASE filename = "NorthAmerica2024.png" -> [a |-> 0, b |-> 0, c |-> 0]
      [] filename = "SouthAmerica2024.png" -> [a |-> 1, b |-> 0, c |-> 1]
      [] filename = "Europe2024.png"       -> [a |-> 0, b |-> 1, c |-> 2]
      [] filename = "Africa2024.png"       -> [a |-> 1, b |-> 1, c |-> 0]
      [] filename = "Asia2024.png"         -> [a |-> 1, b |-> 2, c |-> 3]
      [] OTHER                             -> [a |-> 2, b |-> 1, c |-> 1]

\* map_array[y, x]
PixelAt(map_array, y, x) ==
    Palette[((map_array.image.a * x + map_array.image.b * y + map_array.image.c)
             % Len(Palette)) + 1]

(***************************************************************************)
(* Coordinate projector.                                                   *)
(***************************************************************************)
Min(a, b) == IF a <= b THEN a ELSE b

Max(a, b) == IF a >= b THEN a ELSE b

\* Python round() of the rational p / q (q > 0): to the nearest integer, a
\* tie to the even one.
Round(p, q) ==
    LET f == p \div q
        r == p - f * q
    IN  IF 2 * r < q THEN f
        ELSE IF 2 * r > q THEN f + 1
        ELSE IF f % 2 = 0 THEN f ELSE f + 1

\* The body of _latlon_to_pixel, with the name `region` it reads bound to a
\* region record, for the point (latitude / den, longitude / den) in units:
\* <<x_clamped, y_clamped>>.
Project(latitude, longitude, den, region) ==
    LET x == Round((longitude - region.lon_min * Unit * den) * (region.width - 1),
                   (region.lon_max - region.lon_min) * Unit * den)
        y == Round((region.lat_max * Unit * den - latitude) * (region.height - 1),
                   (region.lat_max - region.lat_min) * Unit * den)
    IN  << Min(Max(x, 0), region.width - 1), Min(Max(y, 0), region.height - 1) >>

PixelOf(latitude, longitude, region) == Project(latitude, longitude, 1, region)

\* The parameters _latlon_to_pixel declares after self.
latlon_to_pixel_params == <<"latitude", "longitude", "map_bounds", "image_shape">>

\* A call self._latlon_to_pixel(*args).  Python binds the arguments to the
\* declared parameters before the body runs: a call with another number of
\* positional arguments raises TypeError.  With all four bound the body reads
\* the name `region`, which is neither a parameter nor a module global:
\* NameError.
latlon_to_pixel(args) ==
    IF Len(args) # Len(latlon_to_pixel_params)
    THEN [exc |-> "TypeError", value |-> <<0, 0>>]
    ELSE [exc |-> "NameError", value |-> <<0, 0>>]

\* Centre of pixel column x / pixel row y (lon_vals, lat_vals and
\* _pixel_to_latlon), in units; exact for the rasters of Unit / 2 pixels per
\* degree.
PixelLon(x, region) ==
    region.lon_min * Unit
    + ((2 * x + 1) * (region.lon_max - region.lon_min) * Unit) \div (2 * region.width)

PixelLat(y, region) ==
    region.lat_max * Unit
    - ((2 * y + 1) * (region.lat_max - region.lat_min) * Unit) \div (2 * region.height)

\* The least d for which the centres of all pixels of the region's raster are
\* whole multiples of 1 / d units (1 for the rasters of Unit / 2 pixels per
\* degree).
RECURSIVE LeastDen(_, _)
LeastDen(d, region) ==
    IF /\ (d * (region.lon_max - region.lon_min) * Unit) % (2 * region.width) = 0
       /\ (d * (region.lat_max - region.lat_min) * Unit) % (2 * region.height) = 0
    THEN d
    ELSE LeastDen(d + 1, region)

CentreDen(region) == LeastDen(1, region)

\* _pixel_to_latlon, exactly: the point (latitude / den, longitude / den) in
\* units.
pixel_to_latlon(x, y, region) ==
    [den |-> CentreDen(region),
     latitude |-> region.lat_max * Unit * CentreDen(region)
                  - (2 * y + 1) * (((region.lat_max - region.lat_min) * Unit * CentreDen(region))
                                   \div (2 * region.height)),
     longitude |-> region.lon_min * Unit * CentreDen(region)
                   + (2 * x + 1) * (((region.lon_max - region.lon_min) * Unit * CentreDen(region))
                                    \div (2 * region.width))]

\* map_array[y, x] for y, x >= 0: numpy raises IndexError for an index beyond
\* the array's shape.
ReadPixel(map_array, y, x) ==
    IF y >= map_array.shape[1] \/ x >= map_array.shape[2]
    THEN [exc |-> "IndexError", value |-> <<0, 0, 0>>]
    ELSE [exc |-> "none", value |-> PixelAt(map_array, y, x)]

(***************************************************************************)
(* _haversine_grid, in metres.  The model evaluates it for points within a *)
(* few units of the equator and of each other, where cos(lat0) * cos(lat)  *)
(* is 1 and sin, atan2 equal their arguments to well below one metre:      *)
(* distance = R * sqrt(dlat^2 + dlon^2), the angles in radians.            *)
(***************************************************************************)
radius_earth_km == 6371

\* Decimetres per unit of arc: R * pi / (180 * Unit), pi as 355 / 113.
DecimetresPerUnit == (((radius_earth_km * 355) \div 113) * 10000) \div (180 * Unit)

\* Integer square root by bisection: the k in lo..hi with k^2 <= n < (k+1)^2.
RECURSIVE SqrtIn(_, _, _)
SqrtIn(n, lo, hi) ==
    IF lo >= hi THEN lo
    ELSE LET mid == (lo + hi + 1) \div 2
         IN  IF mid * mid <= n THEN SqrtIn(n, mid, hi) ELSE SqrtIn(n, lo, mid - 1)

Sqrt(n) == SqrtIn(n, 0, 46340)

haversine(lat0, lon0, lat, lon) ==
    LET delta_lat == lat - lat0
        delta_lon == lon - lon0
    IN  Sqrt((delta_lat * delta_lat + delta_lon * delta_lon)
             * ((DecimetresPerUnit * DecimetresPerUnit) \div 100))

\* radius_km in the unit of the distances.
Km(radius_km) == 1000 * radius_km

(***************************************************************************)
(* Radius search: the stages of find_optimal_locations.                    *)
(***************************************************************************)
\* lat_delta = radius_km / 111.0 degrees.
KmPerDegree == 111

\* The search box in lat/lon, every coordinate multiplied by KmPerDegree so
\* that radius_km / 111.0 stays in the integers.  cos(center_lat) is 1 in the
\* band of latitudes the model searches, so lon_delta = lat_delta.
search_box(region, center_lat, center_lon, radius_km) ==
    LET lat_delta == radius_km * Unit
        lon_delta == radius_km * Unit
    IN  [lat_min |-> Max(region.lat_min * Unit * KmPerDegree, center_lat * KmPerDegree - lat_delta),
         lat_max |-> Min(region.lat_max * Unit * KmPerDegree, center_lat * KmPerDegree + lat_delta),
         lon_min |-> Max(region.lon_min * Unit * KmPerDegree, center_lon * KmPerDegree - lon_delta),
         lon_max |-> Min(region.lon_max * Unit * KmPerDegree, center_lon * KmPerDegree + lon_delta)]

\* np.lexsort(keys): the indices of the entries, sorted by the LAST key, ties
\* by the key before it, remaining ties in index order (the sort is stable).
KeyBefore(keys, i, j) ==
    \/ keys[2][i] < keys[2][j]
    \/ /\ keys[2][i] = keys[2][j]
       /\ \/ keys[1][i] < keys[1][j]
          \/ keys[1][i] = keys[1][j] /\ i < j

RECURSIVE SortIndices(_, _)
SortIndices(keys, S) ==
    IF S = {} THEN <<>>
    ELSE LET m == CHOOSE i \in S : \A j \in S \ {i} : KeyBefore(keys, i, j)
         IN  <<m>> \o SortIndices(keys, S \ {m})

lexsort(keys) == SortIndices(keys, 1..Len(keys[1]))

\* s[:n] of Python: a negative n counts from the end.
Slice(s, n) ==
    IF n >= 0 THEN SubSeq(s, 1, Min(n, Len(s)))
    ELSE SubSeq(s, 1, Max(Len(s) + n, 0))

\* np.nonzero(mask)[0]: the indices where the mask holds, ascending.
RECURSIVE NonZeroFrom(_, _)
NonZeroFrom(mask, k) ==
    IF k > Len(mask) THEN <<>>
    ELSE IF mask[k] THEN <<k>> \o NonZeroFrom(mask, k + 1)
    ELSE NonZeroFrom(mask, k + 1)

nonzero(mask) == NonZeroFrom(mask, 1)

\* round(level, 2), in hundredths of a level (levels are stored doubled).
RoundLevel(level) == Round(level * 100, 2)

\* One entry of `results`.
SearchResult(rank, latitude, longitude, distance, level) ==
    [name |-> <<"Low-light spot #", rank>>,
     latitude |-> latitude,
     longitude |-> longitude,
     distance_km |-> distance,
     light_pollution_index |-> RoundLevel(level),
     bortle_score |-> RoundLevel(level),
     cloudiness_percent |-> 0,
     moon_brightness |-> 0,
     conditions |-> "Lower light pollution compared to center"]

\* Variant of emit_results: the level is read at the rank, not at the
\* selected index.
emit_results_unindexed(selected_indices, valid_levels, valid_distances, valid_lats, valid_lons) ==
    [rank \in 1..Len(selected_indices) |->
        SearchResult(rank,
                     valid_lats[selected_indices[rank]],
                     valid_lons[selected_indices[rank]],
                     valid_distances[selected_indices[rank]],
                     valid_levels[rank])]

\* Lines 156-173: one result per selected index, ranks from 1.
emit_results(selected_indices, valid_levels, valid_distances, valid_lats, valid_lons) ==
    [rank \in 1..Len(selected_indices) |->
        SearchResult(rank,
                     valid_lats[selected_indices[rank]],
                     valid_lons[selected_indices[rank]],
                     valid_distances[selected_indices[rank]],
                     valid_levels[selected_indices[rank]])]

\* As select_indices, without the [:top_n] slice.
select_indices_unsliced(better, order, top_n) ==
    [k \in 1..Len(better) |-> better[order[k]]]

\* Line 154: np.nonzero(better_mask)[0][order][:top_n].
select_indices(better, order, top_n) ==
    Slice([k \in 1..Len(better) |-> better[order[k]]], top_n)

\* As rank_order, the two keys of lexsort exchanged: distance first.
rank_order_by_distance(better, valid_distances, valid_levels) ==
    lexsort(<< [k \in 1..Len(better) |-> valid_levels[better[k]]],
               [k \in 1..Len(better) |-> valid_distances[better[k]]] >>)

\* Line 153: np.lexsort((valid_distances[better_mask], valid_levels[better_mask])).
rank_order(better, valid_distances, valid_levels) ==
    lexsort(<< [k \in 1..Len(better) |-> valid_distances[better[k]]],
               [k \in 1..Len(better) |-> valid_levels[better[k]]] >>)

\* Lines 147-173, `better` the indices of the better-than-centre mask.
rank_better(better, top_n, valid_levels, valid_distances, valid_lats, valid_lons) ==
    IF better = <<>> THEN <<>>
    ELSE emit_results(select_indices(better,
                                     rank_order(better, valid_distances, valid_levels),
                                     top_n),
                      valid_levels, valid_distances, valid_lats, valid_lons)

\* As keep_better, the comparison with the centre not strict.
keep_not_worse(center_level, top_n, valid_levels, valid_distances, valid_lats, valid_lons) ==
    rank_better(nonzero([k \in 1..Len(valid_levels) |-> valid_levels[k] <= center_level]),
                top_n, valid_levels, valid_distances, valid_lats, valid_lons)

keep_better(center_level, top_n, valid_levels, valid_distances, valid_lats, valid_lons) ==
    rank_better(nonzero([k \in 1..Len(valid_levels) |-> valid_levels[k] < center_level]),
                top_n, valid_levels, valid_distances, valid_lats, valid_lons)

\* Lines 133-145, `valid` the indices of the within-radius mask in the
\* row-major order of np.where.
classify_valid(valid, map_array, region, center_level, top_n, cells, distances) ==
    IF valid = <<>> THEN <<>>
    ELSE keep_better(center_level, top_n,
             [k \in 1..Len(valid) |->
                 get_light_pollution_level(
                     PixelAt(map_array, cells[valid[k]].y, cells[valid[k]].x))],
             [k \in 1..Len(valid) |-> distances[valid[k]]],
             [k \in 1..Len(valid) |-> PixelLat(cells[valid[k]].y, region)],
             [k \in 1..Len(valid) |-> PixelLon(cells[valid[k]].x, region)])

\* As within_radius, without the radius mask: the whole window is kept.
within_window(map_array, region, radius_km, center_level, top_n, cells, distances) ==
    classify_valid([k \in 1..Len(cells) |-> k],
                   map_array, region, center_level, top_n, cells, distances)

\* Lines 129-131.
within_radius(map_array, region, radius_km, center_level, top_n, cells, distances) ==
    classify_valid(nonzero([k \in 1..Len(cells) |-> distances[k] <= Km(radius_km)]),
                   map_array, region, center_level, top_n, cells, distances)

\* Lines 117-130: the pixels of the window, row by row, and their distances.
WindowCells(x_min, x_max, y_min, y_max) ==
    [k \in 1..((y_max - y_min + 1) * (x_max - x_min + 1)) |->
        [x |-> x_min + ((k - 1) % (x_max - x_min + 1)),
         y |-> y_min + ((k - 1) \div (x_max - x_min + 1))]]

CellDistances(cells, region, center_lat, center_lon) ==
    [k \in 1..Len(cells) |->
        haversine(center_lat, center_lon,
                  PixelLat(cells[k].y, region), PixelLon(cells[k].x, region))]

scan_cells(map_array, region, center_lat, center_lon, radius_km, center_level, top_n, cells) ==
    within_radius(map_array, region, radius_km, center_level, top_n, cells,
                  CellDistances(cells, region, center_lat, center_lon))

\* Lines 113-115: the guard against a window one pixel wide or high.
scan_window(map_array, region, center_lat, center_lon, radius_km, center_level, top_n, x_min, x_max, y_min, y_max) ==
    IF x_min = x_max \/ y_min = y_max THEN <<>>
    ELSE scan_cells(map_array, region, center_lat, center_lon, radius_km, center_level,
                    top_n, WindowCells(x_min, x_max, y_min, y_max))

\* Lines 94-95 and 110-173: the centre level, the pixel window between the
\* two projected corners, the radius mask, the better-than-centre mask, the
\* ranking and the top_n slice.  center, corner1 and corner2 are the pixels
\* <<x, y>> the three projections returned.
search_window(map_array, region, center_lat, center_lon, radius_km, top_n, center, corner1, corner2) ==
    scan_window(map_array, region, center_lat, center_lon, radius_km,
                get_light_pollution_level(PixelAt(map_array, center[2], center[1])),
                top_n,
                Min(corner1[1], corner2[1]), Max(corner1[1], corner2[1]),
                Min(corner1[2], corner2[2]), Max(corner1[2], corner2[2]))

\* Lines 92-173 with the three projections computed by the projector's
\* formulas: the search a call performs once its projections return.
search_in_box(map_array, region, center_lat, center_lon, radius_km, top_n, box) ==
    search_window(map_array, region, center_lat, center_lon, radius_km, top_n,
                  PixelOf(center_lat, center_lon, region),
                  Project(box.lat_max, box.lon_min, KmPerDegree, region),
                  Project(box.lat_min, box.lon_max, KmPerDegree, region))

search_from(map_array, region, center_lat, center_lon, radius_km, top_n) ==
    search_in_box(map_array, region, center_lat, center_lon, radius_km, top_n,
                  search_box(region, center_lat, center_lon, radius_km))

(***************************************************************************)
(* Raster cache: _load_map_for_region.  `file` is what the file system     *)
(* holds for the region's resource when the call reaches it.  The outcome  *)
(* is [exc, value, cache, storage, read]: the exception raised ("none"     *)
(* when the call returns), the value returned, the cache afterwards, the   *)
(* storage operations performed, and the name of the region whose resource *)
(* was read and decoded ("None" when none was).                            *)
(***************************************************************************)
FileStates == {"ok", "resized", "missing", "corrupt"}

\* map_array.shape of the raster a readable resource decodes to: the declared
\* dimensions, or ("resized") those of an image stored at half the declared
\* resolution.  Lines 199-200 take whatever dimensions the image has.
DecodedShape(region, file) ==
    IF file = "resized" THEN <<region.height \div 2, region.width \div 2>>
    ELSE <<region.height, region.width>>

EmptyCache == [k \in {} |-> None]

\* As CachePut, the cache holding the latest entry only.
CachePutSingle(cache, cache_key, entry) ==
    [k \in {cache_key} |-> entry]

\* As CachePut, an entry already stored kept: the first writer wins.
CachePutIfAbsent(cache, cache_key, entry) ==
    [k \in DOMAIN cache \cup {cache_key} |-> IF k \in DOMAIN cache THEN cache[k] ELSE entry]

\* As CachePut, the entry stored under the file name of its region.
CachePutByFilename(cache, cache_key, entry) ==
    [k \in DOMAIN cache \cup {entry.region.filename} |->
        IF k = entry.region.filename THEN entry ELSE cache[k]]

\* Line 213.
CachePut(cache, cache_key, entry) ==
    [k \in DOMAIN cache \cup {cache_key} |-> IF k = cache_key THEN entry ELSE cache[k]]

\* As load_region, the cache never consulted.
load_region_uncached(cache, region, file) ==
    IF file = "missing"
    THEN [exc |-> "FileNotFoundError", value |-> None, cache |-> cache,
          storage |-> <<"exists">>, read |-> "None"]
    ELSE IF file = "corrupt"
    THEN [exc |-> "UnidentifiedImageError", value |-> None, cache |-> cache,
          storage |-> <<"exists", "open">>, read |-> "None"]
    ELSE [exc |-> "none",
          value |-> [map_array |-> [image |-> StoredImage(region.filename),
                                    shape |-> DecodedShape(region, file)],
                     region |-> region],
          cache |-> CachePut(cache, region.name,
                             [map_array |-> [image |-> StoredImage(region.filename),
                                             shape |-> DecodedShape(region, file)],
                              region |-> region]),
          storage |-> <<"exists", "open">>, read |-> region.name]

\* As load_region, a missing resource replaced by an all-black raster that is
\* returned without being cached.
load_region_blank(cache, region, file) ==
    IF region.name \in DOMAIN cache
    THEN [exc |-> "none", value |-> cache[region.name], cache |-> cache,
          storage |-> <<>>, read |-> "None"]
    ELSE IF file = "missing"
    THEN [exc |-> "none",
          value |-> [map_array |-> [image |-> [a |-> 0, b |-> 0, c |-> 0],
                                    shape |-> <<region.height, region.width>>],
                     region |-> region],
          cache |-> cache, storage |-> <<"exists">>, read |-> "None"]
    ELSE IF file = "corrupt"
    THEN [exc |-> "UnidentifiedImageError", value |-> None, cache |-> cache,
          storage |-> <<"exists", "open">>, read |-> "None"]
    ELSE [exc |-> "none",
          value |-> [map_array |-> [image |-> StoredImage(region.filename),
                                    shape |-> DecodedShape(region, file)],
                     region |-> region],
          cache |-> CachePut(cache, region.name,
                             [map_array |-> [image |-> StoredImage(region.filename),
                                             shape |-> DecodedShape(region, file)],
                              region |-> region]),
          storage |-> <<"exists", "open">>, read |-> region.name]

\* As load_region, a resource that is missing remembered as a blank entry.
load_region_negative(cache, region, file) ==
    IF region.name \in DOMAIN cache
    THEN [exc |-> "none", value |-> cache[region.name], cache |-> cache,
          storage |-> <<>>, read |-> "None"]
    ELSE IF file = "missing"
    THEN [exc |-> "FileNotFoundError", value |-> None,
          cache |-> CachePut(cache, region.name,
                             [map_array |-> [image |-> [a |-> 0, b |-> 0, c |-> 0],
                                             shape |-> <<region.height, region.width>>],
                              region |-> region]),
          storage |-> <<"exists">>, read |-> "None"]
    ELSE IF file = "corrupt"
    THEN [exc |-> "UnidentifiedImageError", value |-> None, cache |-> cache,
          storage |-> <<"exists", "open">>, read |-> "None"]
    ELSE [exc |-> "none",
          value |-> [map_array |-> [image |-> StoredImage(region.filename),
                                    shape |-> DecodedShape(region, file)],
                     region |-> region],
          cache |-> CachePut(cache, region.name,
                             [map_array |-> [image |-> StoredImage(region.filename),
                                             shape |-> DecodedShape(region, file)],
                              region |-> region]),
          storage |-> <<"exists", "open">>, read |-> region.name]

\* As load_region, a hit answered with another raster than the entry's.
load_region_stale(cache, region, file) ==
    IF region.name \in DOMAIN cache
    THEN [exc |-> "none",
          value |-> [map_array |-> [image |-> [a |-> 2, b |-> 2, c |-> 4],
                                    shape |-> cache[region.name].map_array.shape],
                     region |-> region],
          cache |-> cache, storage |-> <<>>, read |-> "None"]
    ELSE IF file = "missing"
    THEN [exc |-> "FileNotFoundError", value |-> None, cache |-> cache,
          storage |-> <<"exists">>, read |-> "None"]
    ELSE IF file = "corrupt"
    THEN [exc |-> "UnidentifiedImageError", value |-> None, cache |-> cache,
          storage |-> <<"exists", "open">>, read |-> "None"]
    ELSE [exc |-> "none",
          value |-> [map_array |-> [image |-> StoredImage(region.filename),
                                    shape |-> DecodedShape(region, file)],
                     region |-> region],
          cache |-> CachePut(cache, region.name,
                             [map_array |-> [image |-> StoredImage(region.filename),
                                             shape |-> DecodedShape(region, file)],
                              region |-> region]),
          storage |-> <<"exists", "open">>, read |-> region.name]

\* Lines 191-214, `region` the region resolved for the coordinates.
load_region(cache, region, file) ==
    IF region.name \in DOMAIN cache
    THEN [exc |-> "none", value |-> cache[region.name], cache |-> cache,
          storage |-> <<>>, read |-> "None"]
    ELSE IF file = "missing"
    THEN [exc |-> "FileNotFoundError", value |-> None, cache |-> cache,
          storage |-> <<"exists">>, read |-> "None"]
    ELSE IF file = "corrupt"
    THEN [exc |-> "UnidentifiedImageError", value |-> None, cache |-> cache,
          storage |-> <<"exists", "open">>, read |-> "None"]
    ELSE [exc |-> "none",
          value |-> [map_array |-> [image |-> StoredImage(region.filename),
                                    shape |-> DecodedShape(region, file)],
                     region |-> region],
          cache |-> CachePut(cache, region.name,
                             [map_array |-> [image |-> StoredImage(region.filename),
                                             shape |-> DecodedShape(region, file)],
                              region |-> region]),
          storage |-> <<"exists", "open">>, read |-> region.name]

\* Lines 187-189, then load_region.
load_resolved(cache, region, file) ==
    IF IsNone(region)
    THEN [exc |-> "ValueError", value |-> None, cache |-> cache,
          storage |-> <<>>, read |-> "None"]
    ELSE load_region(cache, region, file)

load_map_for_region(cache, latitude, longitude, file) ==
    load_resolved(cache, get_region_info(latitude, longitude), file)

(***************************************************************************)
(* The queries.  Outcome: [exc, result, level, cache, storage, read].      *)
(***************************************************************************)
Outcome(exc, result, level, ld) ==
    [exc |-> exc, result |-> result, level |-> level, value |-> ld.value,
     cache |-> ld.cache, storage |-> ld.storage, read |-> ld.read]

NoLoad(cache) == [value |-> None, cache |-> cache, storage |-> <<>>, read |-> "None"]

\* No level: the call returned none or raised.
NoLevel == 0 - 1

\* Lines 106-173, the three projections made.
search_projected(ld, center_lat, center_lon, radius_km, top_n, center, corner1, corner2) ==
    IF center.exc # "none" THEN Outcome(center.exc, <<>>, NoLevel, ld)
    ELSE IF corner1.exc # "none" THEN Outcome(corner1.exc, <<>>, NoLevel, ld)
    ELSE IF corner2.exc # "none" THEN Outcome(corner2.exc, <<>>, NoLevel, ld)
    ELSE Outcome("none",
                 search_window(ld.value.map_array, ld.value.region, center_lat, center_lon,
                               radius_km, top_n, center.value, corner1.value, corner2.value),
                 NoLevel, ld)

\* Lines 97-108: the search box and the projection of its corners.
search_boxed(ld, center_lat, center_lon, radius_km, top_n, box) ==
    search_projected(ld, center_lat, center_lon, radius_km, top_n,
                     latlon_to_pixel(<<center_lat, center_lon, ld.value.region>>),
                     latlon_to_pixel(<<box.lat_max, box.lon_min, ld.value.region>>),
                     latlon_to_pixel(<<box.lat_min, box.lon_max, ld.value.region>>))

\* Lines 90-173, `ld` the outcome of the load.
search_loaded(ld, center_lat, center_lon, radius_km, top_n) ==
    IF ld.exc # "none" THEN Outcome(ld.exc, <<>>, NoLevel, ld)
    ELSE search_boxed(ld, center_lat, center_lon, radius_km, top_n,
                      search_box(ld.value.region, center_lat, center_lon, radius_km))

\* As find_optimal_locations, without the early return of lines 86-88.
find_optimal_locations_unguarded(cache, center_lat, center_lon, radius_km, top_n, file) ==
    search_loaded(load_map_for_region(cache, center_lat, center_lon, file),
                  center_lat, center_lon, radius_km, top_n)

find_optimal_locations(cache, center_lat, center_lon, radius_km, top_n, file) ==
    IF IsNone(get_region_info(center_lat, center_lon))
    THEN Outcome("none", <<>>, NoLevel, NoLoad(cache))
    ELSE search_loaded(load_map_for_region(cache, center_lat, center_lon, file),
                       center_lat, center_lon, radius_km, top_n)

\* Lines 275-277, `pixel` the outcome of the projection.
level_projected(ld, pixel) ==
    IF pixel.exc # "none" THEN Outcome(pixel.exc, <<>>, NoLevel, ld)
    ELSE Outcome("none", <<>>,
                 get_light_pollution_level(
                     PixelAt(ld.value.map_array, pixel.value[2], pixel.value[1])),
                 ld)

level_loaded(ld, latitude, longitude) ==
    IF ld.exc # "none" THEN Outcome(ld.exc, <<>>, NoLevel, ld)
    ELSE level_projected(ld, latlon_to_pixel(<<latitude, longitude, ld.value.region>>))

get_light_pollution_at(cache, latitude, longitude, file) ==
    level_loaded(load_map_for_region(cache, latitude, longitude, file), latitude, longitude)

(***************************************************************************)
(* Sky visibility service (services/visibility_service.py) and the Bortle  *)
(* predictor (models/bortle_predictor.py).  Latitudes and longitudes are   *)
(* whole degrees here; an argument that is not a number is marked by       *)
(* numeric = FALSE.  A model prediction is stored doubled (4.5 is 9), a     *)
(* visibility score in tenths, a confidence in hundredths.  Outcomes are   *)
(* [exc, value]; the model file is outside the program and is observed as  *)
(* one of ModelFiles by each attempt to load it.                           *)
(***************************************************************************)
ModelFiles == {"ok", "missing", "corrupt"}

\* _load_model under st.cache_resource (_self is not part of the key): the
\* model loaded once is returned without touching the file; a failed load
\* stores nothing.  Outcome [exc, resource].
load_model(resource, file) ==
    IF resource = "loaded" THEN [exc |-> "none", resource |-> "loaded"]
    ELSE IF file = "missing" THEN [exc |-> "FileNotFoundError", resource |-> resource]
    ELSE IF file = "corrupt" THEN [exc |-> "UnpicklingError", resource |-> resource]
    ELSE [exc |-> "none", resource |-> "loaded"]

\* BortlePredictor.predict once the model is at hand: `prediction` is what
\* self.model.predict does for the features, [raises, value]; a feature that
\* is not a number makes it raise.
predict_loaded(numeric, prediction) ==
    IF ~numeric \/ prediction.raises THEN [exc |-> "ValueError", value |-> 0]
    ELSE [exc |-> "none", value |-> Max(1, Min(9, Round(prediction.value, 2)))]

\* BortlePredictor.predict: lines 63-81 (the except clause re-raises).
predict(loaded, numeric, prediction) ==
    IF loaded.exc # "none" THEN [exc |-> loaded.exc, value |-> 0]
    ELSE predict_loaded(numeric, prediction)

\* Lines 98-104.
heuristic_base(abs_lat) ==
    IF abs_lat < 30 THEN 7 ELSE IF abs_lat < 45 THEN 5 ELSE 3

\* Lines 106-121.
heuristic_regional(bortle, latitude, longitude) ==
    IF -100 < longitude /\ longitude < -70 /\ 25 < latitude /\ latitude < 50
    THEN Min(bortle + 2, 9)
    ELSE IF 0 < longitude /\ longitude < 20 /\ 35 < latitude /\ latitude < 60
    THEN Min(bortle + 2, 9)
    ELSE IF 95 < longitude /\ longitude < 145 /\ 20 < latitude /\ latitude < 50
    THEN Min(bortle + 1, 9)
    ELSE IF 110 < longitude /\ longitude < 160 /\ -45 < latitude /\ latitude < -10
    THEN Max(bortle - 1, 1)
    ELSE bortle

\* Lines 123-127.
heuristic_polar(bortle, abs_lat) ==
    Max(1, Min(9, IF abs_lat > 70 THEN Max(bortle - 1, 1) ELSE bortle))

\* BortlePredictor.predict_heuristic; abs() of an argument that is not a
\* number raises TypeError.
predict_heuristic(latitude, longitude, numeric) ==
    IF ~numeric THEN [exc |-> "TypeError", value |-> 0]
    ELSE [exc |-> "none",
          value |-> heuristic_polar(
                        heuristic_regional(
                            heuristic_base(IF latitude < 0 THEN 0 - latitude ELSE latitude),
                            latitude, longitude),
                        IF latitude < 0 THEN 0 - latitude ELSE latitude)]

get_sky_quality_description(bortle_scale) ==
    CASE bortle_scale = 1 -> "Excellent dark-sky site"
      [] bortle_scale = 2 -> "Typical truly dark site"
      [] bortle_scale = 3 -> "Rural sky"
      [] bortle_scale = 4 -> "Rural/suburban transition"
      [] bortle_scale = 5 -> "Suburban sky"
      [] bortle_scale = 6 -> "Bright suburban sky"
      [] bortle_scale = 7 -> "Suburban/urban transition"
      [] bortle_scale = 8 -> "City sky"
      [] bortle_scale = 9 -> "Inner-city sky"
      [] OTHER -> "Unknown"

\* Variant of visibility_record: the score grows with the Bortle scale.
visibility_record_direct(bortle_scale, confidence, source) ==
    [bortle_scale |-> bortle_scale,
     visibility_score |-> Round((bortle_scale - 1) * 1000, 8),
     sky_quality |-> get_sky_quality_description(bortle_scale),
     confidence |-> confidence,
     source |-> source]

\* Lines 40-50.
visibility_record(bortle_scale, confidence, source) ==
    [bortle_scale |-> bortle_scale,
     visibility_score |-> Round((9 - bortle_scale) * 1000, 8),
     sky_quality |-> get_sky_quality_description(bortle_scale),
     confidence |-> confidence,
     source |-> source]

\* Lines 55-61.
fallback_record ==
    [bortle_scale |-> 5, visibility_score |-> 500, sky_quality |-> "Suburban sky",
     confidence |-> 50, source |-> "fallback"]

\* As visibility_after_heuristic, without the handler of lines 52-61.
visibility_after_heuristic_unguarded(h) ==
    IF h.exc # "none" THEN [exc |-> h.exc, value |-> fallback_record]
    ELSE [exc |-> "none", value |-> visibility_record(h.value, 60, "heuristic")]

\* Lines 36-38, then 40-50; an exception of the heuristic reaches the handler
\* of lines 52-61.
visibility_after_heuristic(h) ==
    IF h.exc # "none" THEN [exc |-> "none", value |-> fallback_record]
    ELSE [exc |-> "none", value |-> visibility_record(h.value, 60, "heuristic")]

\* Lines 30-38, `ml` the outcome of predictor.predict.
visibility_after_predict(ml, latitude, longitude, numeric) ==
    IF ml.exc = "none"
    THEN [exc |-> "none", value |-> visibility_record(ml.value, 75, "ml_model")]
    ELSE visibility_after_heuristic(predict_heuristic(latitude, longitude, numeric))

\* Lines 25-61, `init` the outcome of BortlePredictor(), whose __init__
\* calls _load_model: an exception of the constructor is outside the inner
\* try and reaches the handler of lines 52-61.
visibility_after_init(init, file, latitude, longitude, numeric, prediction) ==
    IF init.exc # "none" THEN [exc |-> "none", value |-> fallback_record]
    ELSE visibility_after_predict(
             predict(load_model(init.resource, file), numeric, prediction),
             latitude, longitude, numeric)

\* The body of get_sky_visibility.
sky_visibility(resource, file, latitude, longitude, numeric, prediction) ==
    visibility_after_init(load_model(resource, file), file,
                          latitude, longitude, numeric, prediction)

\* The arguments of the calls: New York; the high Arctic; the Australian
\* interior; the Gulf of Guinea; no latitude at all.
VisibilityPoints ==
    { [latitude |-> 41, longitude |-> -74, numeric |-> TRUE],
      [latitude |-> 80, longitude |-> 10, numeric |-> TRUE],
      [latitude |-> -30, longitude |-> 130, numeric |-> TRUE],
      [latitude |-> 0, longitude |-> 0, numeric |-> FALSE] }

\* What the model does: it predicts -1.5, 4.5 or 12.5 (stored doubled), or
\* it raises.
Predictions ==
    { [raises |-> FALSE, value |-> v] : v \in {-3, 9, 25} }
    \cup { [raises |-> TRUE, value |-> 0] }

NoVisibility ==
    [op |-> "none", point |-> [latitude |-> 0, longitude |-> 0, numeric |-> TRUE],
     file |-> "unread", prediction |-> [raises |-> TRUE, value |-> 0],
     loaded |-> FALSE, hit |-> FALSE,
     exc |-> "none", value |-> fallback_record]

\* st.cache_data and st.cache_resource start empty.
EmptyData == [k \in {} |-> fallback_record]

InitService ==
    /\ model_resource = "none"
    /\ data_cache = EmptyData
    /\ visibility = NoVisibility

\* A call that st.cache_data answers from its store.
ServeCached(point) ==
    /\ visibility' = [op |-> "get", point |-> point, file |-> "unread",
                      prediction |-> [raises |-> TRUE, value |-> 0],
                      loaded |-> model_resource = "loaded", hit |-> TRUE,
                      exc |-> "none", value |-> data_cache[point]]
    /\ UNCHANGED <<model_resource, data_cache>>

\* A call that runs the body, which ended with `out`; st.cache_data stores
\* what the body returned.
RunBody(point, file, prediction, out) ==
    /\ visibility' = [op |-> "get", point |-> point,
                      file |-> IF model_resource = "loaded" THEN "unread" ELSE file,
                      prediction |-> prediction,
                      loaded |-> model_resource = "loaded", hit |-> FALSE,
                      exc |-> out.exc, value |-> out.value]
    /\ model_resource' = load_model(model_resource, file).resource
    /\ data_cache' = IF out.exc # "none" THEN data_cache
                     ELSE [k \in DOMAIN data_cache \cup {point} |->
                              IF k = point THEN out.value ELSE data_cache[k]]

\* get_sky_visibility(latitude, longitude) under st.cache_data(ttl=21600).
GetSkyVisibility(point, file, prediction) ==
    /\ IF point \in DOMAIN data_cache
       THEN ServeCached(point)
       ELSE RunBody(point, file, prediction,
                    sky_visibility(model_resource, file, point.latitude, point.longitude,
                                   point.numeric, prediction))
    /\ UNCHANGED <<map_cache, reads, call, scan, threads, weather_vars, nearby>>

\* The ttl of an entry of st.cache_data runs out.
Expire(point) ==
    /\ point \in DOMAIN data_cache
    /\ data_cache' = [k \in DOMAIN data_cache \ {point} |-> data_cache[k]]
    /\ UNCHANGED <<model_resource, visibility>>
    /\ UNCHANGED <<map_cache, reads, call, scan, threads, weather_vars, nearby>>

NextService ==
    \/ \E point \in VisibilityPoints, file \in ModelFiles, prediction \in Predictions :
          GetSkyVisibility(point, file, prediction)
    \/ \E point \in VisibilityPoints : Expire(point)

(***************************************************************************)
(* The weather service (map_app/services/weather_service.py).              *)
(*   - a percentage of illumination is a whole number of tenths, a         *)
(*     magnitude or a brightness a whole number of hundredths;             *)
(*   - the forecast site is outside the program: a request ends with a     *)
(*     page or with an exception, and a page is described by what the      *)
(*     three extractions find in it.                                       *)
(***************************************************************************)
Getters == {"get_cloudiness", "get_moon_brightness", "get_bortle_scale"}

\* A page: the first percentage in 0..100 it shows for the clouds (-1: none),
\* the illumination of its fc_moon block (-1: no such block), the class of
\* its btn-bortle span (0: no such span) with the magnitude that span shows,
\* and the getters whose extraction raises on it.
BarePage ==
    [cloudiness |-> 0 - 1, illumination |-> 0 - 1, bortle_scale |-> 0,
     magnitude |-> 0, raises |-> {}]

Pages ==
    { [cloudiness |-> 5, illumination |-> 80, bortle_scale |-> 3,
       magnitude |-> 2153, raises |-> {}],
      BarePage,
      [cloudiness |-> 85, illumination |-> 10, bortle_scale |-> 8,
       magnitude |-> 1753, raises |-> {"get_moon_brightness"}],
      [cloudiness |-> 85, illumination |-> 10, bortle_scale |-> 8,
       magnitude |-> 1753, raises |-> Getters] }

\* What httpx.get followed by raise_for_status ends with.
Responses ==
    {[ok |-> FALSE, page |-> BarePage]} \cup {[ok |-> TRUE, page |-> p] : p \in Pages}

\* self.soup: None, or the parsed page.
NoSoup == [fetched |-> FALSE, page |-> BarePage]

\* datetime.utcnow(): the hour of the day and the days since 2024-01-11.
Hours == {3, 12}
Days == {1000, 1010}

\* Lines 29-39: the one place that calls httpx.get.
fetch_page(fetcher, response) ==
    [fetcher EXCEPT !.requests = @ + 1,
                    !.soup = IF response.ok
                             THEN [fetched |-> TRUE, page |-> response.page]
                             ELSE NoSoup]

\* Lines 16-27.
new_fetcher(latitude, longitude, response) ==
    fetch_page([latitude |-> latitude, longitude |-> longitude,
                soup |-> NoSoup, requests |-> 0], response)

\* Lines 211-223.
get_cloud_description(cloudiness) ==
    IF cloudiness < 10 THEN "Clear"
    ELSE IF cloudiness < 30 THEN "Mostly clear"
    ELSE IF cloudiness < 50 THEN "Partly cloudy"
    ELSE IF cloudiness < 70 THEN "Mostly cloudy"
    ELSE "Overcast"

\* Lines 225-234.
fallback_cloudiness(hour) ==
    LET cloudiness == IF 6 <= hour /\ hour <= 18 THEN 40 ELSE 30
    IN [cloudiness_percent |-> cloudiness,
        forecast_description |-> get_cloud_description(cloudiness),
        source |-> "fallback"]

\* Lines 242-247, in hundredths of a day: 2 * phase_fraction - 1 is
\* PhaseOffset(days) / 2953, and the illumination is taken from its size.
PhaseOffset(days) == 2 * ((days * 100) % 2953) - 2953

\* The illumination times 2953, so that the thresholds compare exactly.
IlluminationScaled(days) ==
    IF PhaseOffset(days) > 0 THEN 100 * 2953 - PhaseOffset(days) * 100
    ELSE (0 - PhaseOffset(days)) * 100

\* Lines 249-265.
fallback_phase(days) ==
    LET illumination == IlluminationScaled(days)
    IN IF illumination < 1 * 2953 THEN "New Moon"
       ELSE IF illumination < 25 * 2953 THEN "Waxing Crescent"
       ELSE IF illumination < 45 * 2953 THEN "First Quarter"
       ELSE IF illumination < 55 * 2953 THEN "Waxing Gibbous"
       ELSE IF illumination < 75 * 2953 THEN "Full Moon"
       ELSE IF illumination < 95 * 2953 THEN "Waning Gibbous"
       ELSE IF illumination < 99 * 2953 THEN "Last Quarter"
       ELSE "Waning Crescent"

\* Lines 236-272: a record of four keys, none of them 'source'.
fallback_moon_data(days) ==
    [moon_phase |-> fallback_phase(days),
     illumination_percent |-> Round(IlluminationScaled(days) * 10, 2953),
     moon_rise_time |-> "None",
     moon_set_time |-> "None"]

\* Lines 274-282: a record of four keys, none of them 'source'.
fallback_bortle ==
    [bortle_scale |-> 5, magnitude |-> 0, brightness_mcd_m2 |-> 0,
     artificial_brightness_ucd_m2 |-> 0]

\* Lines 98-123.
extract_cloudiness_percent(page) ==
    IF page.cloudiness >= 0 /\ page.cloudiness <= 100 THEN page.cloudiness ELSE 50

\* Lines 125-165.
extract_moon_data(page) ==
    IF page.illumination < 0
    THEN [moon_phase |-> "Unknown", illumination_percent |-> 500,
          moon_rise_time |-> "None", moon_set_time |-> "None"]
    ELSE [moon_phase |-> "Waxing Gibbous", illumination_percent |-> page.illumination * 10,
          moon_rise_time |-> "08:01:00", moon_set_time |-> "16:44:00"]

\* Lines 167-209.
extract_bortle_data(page) ==
    IF page.bortle_scale = 0
    THEN [bortle_scale |-> 5, magnitude |-> 0, brightness_mcd_m2 |-> 0,
          artificial_brightness_ucd_m2 |-> 0]
    ELSE [bortle_scale |-> page.bortle_scale, magnitude |-> page.magnitude,
          brightness_mcd_m2 |-> 1052, artificial_brightness_ucd_m2 |-> 1034917]

\* {**record, "source": source}.
WithSource(record, source) ==
    [k \in DOMAIN record \cup {"source"} |-> IF k = "source" THEN source ELSE record[k]]

\* Variant of get_cloudiness: without a page, the request is made again.
get_cloudiness_refetching(fetcher, hour) ==
    IF ~fetcher.soup.fetched
    THEN [fetcher |-> [fetcher EXCEPT !.requests = @ + 1], value |-> fallback_cloudiness(hour)]
    ELSE IF "get_cloudiness" \in fetcher.soup.page.raises
    THEN [fetcher |-> fetcher, value |-> fallback_cloudiness(hour)]
    ELSE [fetcher |-> fetcher, value |-> [cloudiness_percent |-> extract_cloudiness_percent(fetcher.soup.page),
              forecast_description |->
                  get_cloud_description(extract_cloudiness_percent(fetcher.soup.page)),
              source |-> "scraped"]]

\* Lines 41-62.
get_cloudiness(fetcher, hour) ==
    IF ~fetcher.soup.fetched
    THEN [fetcher |-> fetcher, value |-> fallback_cloudiness(hour)]
    ELSE IF "get_cloudiness" \in fetcher.soup.page.raises
    THEN [fetcher |-> fetcher, value |-> fallback_cloudiness(hour)]
    ELSE [fetcher |-> fetcher, value |-> [cloudiness_percent |-> extract_cloudiness_percent(fetcher.soup.page),
              forecast_description |->
                  get_cloud_description(extract_cloudiness_percent(fetcher.soup.page)),
              source |-> "scraped"]]

\* Lines 64-79.
get_moon_brightness(fetcher, days) ==
    IF ~fetcher.soup.fetched
    THEN [fetcher |-> fetcher, value |-> fallback_moon_data(days)]
    ELSE IF "get_moon_brightness" \in fetcher.soup.page.raises
    THEN [fetcher |-> fetcher, value |-> WithSource(fallback_moon_data(days), "fallback")]
    ELSE [fetcher |-> fetcher, value |-> WithSource(extract_moon_data(fetcher.soup.page), "scraped")]

\* Lines 81-96.
get_bortle_scale(fetcher) ==
    IF ~fetcher.soup.fetched
    THEN [fetcher |-> fetcher, value |-> fallback_bortle]
    ELSE IF "get_bortle_scale" \in fetcher.soup.page.raises
    THEN [fetcher |-> fetcher, value |-> fallback_bortle]
    ELSE [fetcher |-> fetcher, value |-> WithSource(extract_bortle_data(fetcher.soup.page), "scraped")]

\* The coordinates the service is asked about.
WeatherPoints ==
    { [latitude |-> 40, longitude |-> 0 - 74], [latitude |-> 0 - 30, longitude |-> 130] }


\* st.cache_resource and st.cache_data start empty; no getter was called.
InitWeather ==
    /\ fetchers = <<>>
    /\ weather_cache = <<>>
    /\ weather = [op |-> "none", point |-> [latitude |-> 0, longitude |-> 0],
                  hit |-> FALSE, constructed |-> FALSE, requests |-> 0,
                  value |-> fallback_bortle]

\* Lines 285-300: get_weather_fetcher under st.cache_resource, one fetcher a
\* coordinate pair.
get_weather_fetcher(cache, point, response) ==
    IF point \in DOMAIN cache THEN cache[point]
    ELSE new_fetcher(point.latitude, point.longitude, response)

\* A call of a module-level getter under st.cache_data: answered from the
\* store, or by the body (lines 318-319, 337-338, 356-357), which ended with
\* `got` on the fetcher of the point.
CallGetter(getter, point, got) ==
    IF [getter |-> getter, point |-> point] \in DOMAIN weather_cache
    THEN /\ weather' = [op |-> getter, point |-> point, hit |-> TRUE,
                        constructed |-> FALSE,
                        requests |-> IF point \in DOMAIN fetchers
                                     THEN fetchers[point].requests ELSE 0,
                        value |-> weather_cache[[getter |-> getter, point |-> point]]]
         /\ UNCHANGED <<fetchers, weather_cache>>
    ELSE /\ weather' = [op |-> getter, point |-> point, hit |-> FALSE,
                        constructed |-> point \notin DOMAIN fetchers,
                        requests |-> got.fetcher.requests,
                        value |-> got.value]
         /\ fetchers' = [p \in DOMAIN fetchers \cup {point} |->
                            IF p = point THEN got.fetcher ELSE fetchers[p]]
         /\ weather_cache' = [k \in DOMAIN weather_cache \cup {[getter |-> getter, point |-> point]} |->
                                 IF k = [getter |-> getter, point |-> point] THEN got.value
                                 ELSE weather_cache[k]]

\* Lines 303-319.
GetCloudiness(point, response, hour) ==
    /\ CallGetter("get_cloudiness", point,
                  get_cloudiness(get_weather_fetcher(fetchers, point, response), hour))
    /\ UNCHANGED <<map_cache, reads, call, scan, threads, service_vars, nearby>>

\* Lines 322-338.
GetMoonBrightness(point, response, days) ==
    /\ CallGetter("get_moon_brightness", point,
                  get_moon_brightness(get_weather_fetcher(fetchers, point, response), days))
    /\ UNCHANGED <<map_cache, reads, call, scan, threads, service_vars, nearby>>

\* Lines 341-357.
GetBortleScale(point, response) ==
    /\ CallGetter("get_bortle_scale", point,
                  get_bortle_scale(get_weather_fetcher(fetchers, point, response)))
    /\ UNCHANGED <<map_cache, reads, call, scan, threads, service_vars, nearby>>

\* The ttl of an entry of st.cache_data runs out.
ExpireWeather(getter, point) ==
    /\ [getter |-> getter, point |-> point] \in DOMAIN weather_cache
    /\ weather_cache' = [k \in DOMAIN weather_cache \ {[getter |-> getter, point |-> point]} |->
                            weather_cache[k]]
    /\ UNCHANGED <<fetchers, weather>>
    /\ UNCHANGED <<map_cache, reads, call, scan, threads, service_vars, nearby>>

NextWeather ==
    \/ \E point \in WeatherPoints, response \in Responses, hour \in Hours :
          GetCloudiness(point, response, hour)
    \/ \E point \in WeatherPoints, response \in Responses, days \in Days :
          GetMoonBrightness(point, response, days)
    \/ \E point \in WeatherPoints, response \in Responses :
          GetBortleScale(point, response)
    \/ \E getter \in Getters, point \in WeatherPoints : ExpireWeather(getter, point)

(***************************************************************************)
(* The observation dataset search                                          *)
(* (map_app/services/nearby_locations_service.py).  Coordinates are in     *)
(* units and distances in metres, as for the engine; a limiting magnitude  *)
(* is a whole number of hundredths.  `nearby` records the last call.       *)
(***************************************************************************)
\* A row of the CSV; `located` is false when its Latitude is NaN, `rated`
\* when its LimitingMag is.
Row(latitude, longitude, located, rated, mag, cloud) ==
    [Latitude |-> latitude, Longitude |-> longitude, located |-> located,
     rated |-> rated, LimitingMag |-> mag, CloudCover |-> cloud]

\* What pd.read_csv can find at csv_path: nothing (it raises), a table
\* without the columns the body reads (the lookup raises), or a table.
Datasets ==
    { [file |-> "missing", rows |-> <<>>],
      [file |-> "malformed", rows |-> <<Row(1, 0, TRUE, TRUE, 550, 10)>>],
      [file |-> "ok", rows |-> <<>>],
      [file |-> "ok",
       rows |-> << Row(3, 4, TRUE, TRUE, 610, 0),
                   Row(0, 2, TRUE, FALSE, 0, 25),
                   Row(1, 0, TRUE, TRUE, 550, 10),
                   Row(0, 0, FALSE, TRUE, 480, 50),
                   Row(0 - 1, 0, TRUE, TRUE, 420, 75),
                   Row(2, 2, TRUE, TRUE, 590, 0) >>] }

\* Lines 16-41, in the small-angle form of the engine's haversine: metres.
haversine_distance(lat1, lon1, lat2, lon2) ==
    LET dlat == lat2 - lat1
        dlon == lon2 - lon1
    IN  Sqrt((dlat * dlat + dlon * dlon) * ((DecimetresPerUnit * DecimetresPerUnit) \div 100))

\* Lines 88-96: the indices of the rows whose distance is a number and at
\* most radius_km, in the order of the table.
RECURSIVE nearby_rows(_, _, _, _, _)
nearby_rows(rows, latitude, longitude, radius_km, k) ==
    IF k > Len(rows) THEN <<>>
    ELSE IF /\ rows[k].located
            /\ haversine_distance(latitude, longitude, rows[k].Latitude, rows[k].Longitude)
                   <= Km(radius_km)
         THEN <<k>> \o nearby_rows(rows, latitude, longitude, radius_km, k + 1)
         ELSE nearby_rows(rows, latitude, longitude, radius_km, k + 1)

\* Line 109: sort_values('distance_km') orders by the distance and promises
\* nothing about rows at the same distance: every ascending arrangement.
sort_values(indices, rows, latitude, longitude) ==
    { order \in [1..Len(indices) -> 1..Len(indices)] :
        /\ \A i, j \in 1..Len(indices) : i # j => order[i] # order[j]
        /\ \A i \in 1..(Len(indices) - 1) :
              haversine_distance(latitude, longitude, rows[indices[order[i]]].Latitude,
                                 rows[indices[order[i]]].Longitude)
              <= haversine_distance(latitude, longitude, rows[indices[order[i + 1]]].Latitude,
                                    rows[indices[order[i + 1]]].Longitude) }

\* Variant of head: the count is not applied.
head_unlimited(s, n) == s

\* Line 112: DataFrame.head(n) keeps the first n rows, and for a negative n
\* all rows but the last |n|.
head(s, n) ==
    IF n >= 0 THEN SubSeq(s, 1, Min(n, Len(s)))
    ELSE SubSeq(s, 1, Max(Len(s) + n, 0))

\* Lines 117-131: round(distance, 2) km is a whole number of 10 m.
location_dict(row, latitude, longitude) ==
    LET distance == 10 * Round(haversine_distance(latitude, longitude,
                                                  row.Latitude, row.Longitude), 10)
    IN  [name |-> <<distance, " km away">>,
         latitude |-> row.Latitude,
         longitude |-> row.Longitude,
         distance_km |-> distance,
         light_pollution_index |-> IF row.rated THEN <<row.LimitingMag>> ELSE <<>>,
         limiting_mag |-> IF row.rated THEN <<row.LimitingMag>> ELSE <<>>,
         cloud_cover |-> row.CloudCover,
         bortle_score |-> IF row.rated THEN <<row.LimitingMag>> ELSE <<>>,
         cloudiness_percent |-> row.CloudCover,
         moon_brightness |-> 0,
         conditions |-> <<"Observation location ", distance, " km from center">>]

\* Lines 109-134 for the rows `indices` in the arrangement `order`.
nearby_results(indices, order, rows, latitude, longitude, top_n) ==
    LET kept == head([i \in 1..Len(indices) |-> indices[order[i]]], top_n)
    IN  [i \in 1..Len(kept) |-> location_dict(rows[kept[i]], latitude, longitude)]

\* Lines 76-138: what the call returns, the sort having given `order`.  An
\* exception of the body (line 84 on a missing file, lines 90 and 109 on
\* missing columns) ends in the handler of lines 136-138.
find_nearby_observation_locations(latitude, longitude, radius_km, dataset, top_n, order) ==
    IF dataset.file # "ok" THEN <<>>
    ELSE IF nearby_rows(dataset.rows, latitude, longitude, radius_km, 1) = <<>> THEN <<>>
    ELSE nearby_results(nearby_rows(dataset.rows, latitude, longitude, radius_km, 1),
                        order, dataset.rows, latitude, longitude, top_n)

\* The arrangements the sort of the call can give (one, when it is not reached).
Orders(latitude, longitude, radius_km, dataset) ==
    IF dataset.file # "ok" THEN {<<>>}
    ELSE sort_values(nearby_rows(dataset.rows, latitude, longitude, radius_km, 1),
                     dataset.rows, latitude, longitude)

\* The targets asked about.
NearbyTargets == {<<0, 0>>, <<1, 1>>, <<0, 40>>}


\* No call was made.
InitNearby ==
    nearby = [op |-> "none", latitude |-> 0, longitude |-> 0, radius_km |-> 0, top_n |-> 0,
              dataset |-> [file |-> "missing", rows |-> <<>>], exc |-> "none",
              result |-> <<>>]

\* A call of find_nearby_observation_locations.
FindNearby(latitude, longitude, radius_km, dataset, top_n, order) ==
    /\ nearby' = [op |-> "find_nearby_observation_locations",
                  latitude |-> latitude, longitude |-> longitude,
                  radius_km |-> radius_km, top_n |-> top_n, dataset |-> dataset,
                  exc |-> "none",
                  result |-> find_nearby_observation_locations(latitude, longitude, radius_km,
                                                               dataset, top_n, order)]
    /\ UNCHANGED <<map_cache, reads, call, scan, threads, service_vars, weather_vars>>

\* main.py, lines 94-105: get_optimal_locations_for_radius(radius_km) for the
\* target of the session, with max_locations = 5.
GetOptimalLocationsForRadius(latitude, longitude, radius_km, dataset, order) ==
    /\ nearby' = [op |-> "get_optimal_locations_for_radius",
                  latitude |-> latitude, longitude |-> longitude,
                  radius_km |-> radius_km, top_n |-> 5, dataset |-> dataset,
                  exc |-> "none",
                  result |-> find_nearby_observation_locations(latitude, longitude, radius_km,
                                                               dataset, 5, order)]
    /\ UNCHANGED <<map_cache, reads, call, scan, threads, service_vars, weather_vars>>

NextNearby ==
    \/ \E target \in NearbyTargets, radius_km \in 0..MaxRadius, dataset \in Datasets,
          top_n \in (0 - 1)..MaxTopN :
          \E order \in Orders(target[1], target[2], radius_km, dataset) :
             FindNearby(target[1], target[2], radius_km, dataset, top_n, order)
    \/ \E target \in NearbyTargets, radius_km \in 0..MaxRadius, dataset \in Datasets :
          \E order \in Orders(target[1], target[2], radius_km, dataset) :
             GetOptimalLocationsForRadius(target[1], target[2], radius_km, dataset, order)

(***************************************************************************)
(* The engine as a state machine: one OptimalLocationFinder, its calls one *)
(* at a time.  `call` records the last call and how it ended; `reads`      *)
(* counts, per region, the times its resource was read and decoded.        *)
(***************************************************************************)
Deg(d) == d * Unit

\* Every edge of a catalogue box, with the point one unit outside it.
ResolveLats ==
    UNION { {Deg(CONTINENTS[i].lat_min) - 1, Deg(CONTINENTS[i].lat_min),
             Deg(CONTINENTS[i].lat_max), Deg(CONTINENTS[i].lat_max) + 1}
            : i \in 1..Len(CONTINENTS) }

ResolveLons ==
    UNION { {Deg(CONTINENTS[i].lon_min) - 1, Deg(CONTINENTS[i].lon_min),
             Deg(CONTINENTS[i].lon_max), Deg(CONTINENTS[i].lon_max) + 1}
            : i \in 1..Len(CONTINENTS) }

\* <<latitude, longitude>> of the queries: North America; the overlap of
\* North and South America; open ocean (0N, 170W); Australia on the equator;
\* the overlap of Europe and Asia; south of every box.
QueryPoints ==
    { <<Deg(40), Deg(-100)>>, <<Deg(10), Deg(-80)>>, <<0, Deg(-170)>>,
      <<0, Deg(94) + 10>>, <<Deg(50), Deg(65)>>, <<Deg(-60), 0>> }

Radii == 1..MaxRadius

TopNs == (-1)..MaxTopN

\* The threads of the concurrent specification, none of them in a call.
Threads == 1..NumThreads

NoThreads ==
    [t \in Threads |-> [pc |-> "idle", region |-> None, map_array |-> None,
                        exc |-> "none", value |-> None]]

Idle ==
    [op |-> "none", latitude |-> 0, longitude |-> 0, radius_km |-> 0, top_n |-> 0,
     file |-> "unread", exc |-> "none", result |-> <<>>, level |-> NoLevel,
     value |-> None, storage |-> <<>>, hit |-> FALSE, region |-> "None"]

Init ==
    /\ map_cache = EmptyCache
    /\ reads = [n \in RegionNames |-> 0]
    /\ call = Idle
    /\ scan = [op |-> "none"]
    /\ threads = NoThreads
    /\ InitService
    /\ InitWeather
    /\ InitNearby

\* What `call` records of a call that ended with outcome `out`.
CallRecord(op, latitude, longitude, radius_km, top_n, file, out, region) ==
    [op |-> op, latitude |-> latitude, longitude |-> longitude,
     radius_km |-> radius_km, top_n |-> top_n,
     file |-> IF out.storage = <<>> THEN "unread" ELSE file,
     exc |-> out.exc, result |-> out.result, level |-> out.level,
     value |-> out.value, storage |-> out.storage,
     hit |-> region.name \in DOMAIN map_cache,
     region |-> region.name]

\* The state after a call that ended with outcome `out`.
Commit(op, latitude, longitude, radius_km, top_n, file, out) ==
    /\ map_cache' = out.cache
    /\ reads' = [n \in RegionNames |-> IF n = out.read THEN reads[n] + 1 ELSE reads[n]]
    /\ call' = CallRecord(op, latitude, longitude, radius_km, top_n, file, out,
                          get_region_info(latitude, longitude))
    /\ UNCHANGED <<scan, threads, service_vars, weather_vars, nearby>>

\* The model stops counting reads beyond MaxReads.
Countable == \A n \in RegionNames : reads[n] <= MaxReads

Resolve(latitude, longitude) ==
    /\ Countable
    /\ Commit("resolve", latitude, longitude, 0, 0, "unread",
              Outcome("none", <<>>, NoLevel, NoLoad(map_cache)))

Load(latitude, longitude, file) ==
    /\ Countable
    /\ Commit("load", latitude, longitude, 0, 0, file,
              load_map_for_region(map_cache, latitude, longitude, file)
                  @@ [result |-> <<>>, level |-> NoLevel])

FindOptimal(center_lat, center_lon, radius_km, top_n, file) ==
    /\ Countable
    /\ Commit("findOptimal", center_lat, center_lon, radius_km, top_n, file,
              find_optimal_locations(map_cache, center_lat, center_lon,
                                     radius_km, top_n, file))

LevelAt(latitude, longitude, file) ==
    /\ Countable
    /\ Commit("levelAt", latitude, longitude, 0, 0, file,
              get_light_pollution_at(map_cache, latitude, longitude, file))

Next ==
    \/ \E p \in QueryPoints : Resolve(p[1], p[2])
    \/ \E p \in QueryPoints, file \in FileStates : Load(p[1], p[2], file)
    \/ \E p \in QueryPoints, radius_km \in Radii, top_n \in TopNs, file \in FileStates :
          FindOptimal(p[1], p[2], radius_km, top_n, file)
    \/ \E p \in QueryPoints, file \in FileStates : LevelAt(p[1], p[2], file)

Spec == Init /\ [][Next]_vars

\* The sky visibility service alone.
SpecService == Init /\ [][NextService]_vars

\* The weather service alone.
SpecWeather == Init /\ [][NextWeather]_vars

\* The observation dataset search alone.
SpecNearby == Init /\ [][NextNearby]_vars

\* The region resolver alone, over the edges of the catalogue.
NextResolve ==
    \E latitude \in ResolveLats, longitude \in ResolveLons : Resolve(latitude, longitude)

SpecResolve == Init /\ [][NextResolve]_vars

(***************************************************************************)
(* The radius search alone: lines 92-173 applied to a loaded raster, the   *)
(* projections computed by the projector's formulas.  The inputs are drawn *)
(* in the initial state: a centre on the equator at the west edge of       *)
(* Australia (where the box is clamped to the region), a radius, top_n and *)
(* a raster.                                                               *)
(***************************************************************************)
SearchRegion == CONTINENTS[6]

ScanLats == (-1)..1

ScanLons == { Deg(SearchRegion.lon_min) + d : d \in {0, 1, 2, 9, 10} }

LoadedRaster(image) ==
    [image |-> image, shape |-> <<SearchRegion.height, SearchRegion.width>>]

InitSearch ==
    /\ map_cache = EmptyCache
    /\ reads = [n \in RegionNames |-> 0]
    /\ call = Idle
    /\ threads = NoThreads
    /\ InitService
    /\ InitWeather
    /\ InitNearby
    /\ scan \in { [op |-> "input", center_lat |-> lat, center_lon |-> lon,
                   radius_km |-> r, top_n |-> n, image |-> image, result |-> <<>>]
                  : lat \in ScanLats, lon \in ScanLons, r \in Radii, n \in TopNs,
                    image \in Images }

Scan ==
    /\ scan.op = "input"
    /\ scan' = [scan EXCEPT !.op = "search",
                            !.result = search_from(LoadedRaster(scan.image), SearchRegion,
                                                   scan.center_lat, scan.center_lon,
                                                   scan.radius_km, scan.top_n)]
    /\ UNCHANGED <<map_cache, reads, call, threads, service_vars, weather_vars, nearby>>

NextSearch == Scan

SpecSearch == InitSearch /\ [][NextSearch]_vars

(***************************************************************************)
(* The projector alone.  ToPixel takes a point on, next to or well inside  *)
(* the edges of a region and the raster loaded for the region; RoundTrip   *)
(* takes a pixel of the region's raster.  Each records the outcome of the  *)
(* call self._latlon_to_pixel(latitude, longitude, region) as the queries  *)
(* make it (`invoked`), and what the statements of its body compute from   *)
(* the region record (`pixel`, and `read`, the raster read at that pixel). *)
(***************************************************************************)
PixelLats(region) ==
    { Deg(region.lat_min) - Unit, Deg(region.lat_min) - 1, Deg(region.lat_min),
      Deg(region.lat_min) + 1, (Deg(region.lat_min) + Deg(region.lat_max)) \div 2,
      Deg(region.lat_max) - 1, Deg(region.lat_max), Deg(region.lat_max) + 1,
      Deg(region.lat_max) + Unit }

PixelLons(region) ==
    { Deg(region.lon_min) - Unit, Deg(region.lon_min) - 1, Deg(region.lon_min),
      Deg(region.lon_min) + 1, (Deg(region.lon_min) + Deg(region.lon_max)) \div 2,
      Deg(region.lon_max) - 1, Deg(region.lon_max), Deg(region.lon_max) + 1,
      Deg(region.lon_max) + Unit }

\* Pixel columns and rows of the round trip: the border, the pixels next to
\* it and pixels inside, as far as the products stay in TLC's integers.
CellXs(region) ==
    {0, 1, 2, 3, 450, 900}
    \cup (IF CentreDen(region) = 1
          THEN {region.width \div 2, region.width - 2, region.width - 1} ELSE {})

CellYs(region) ==
    {0, 1, 2, 3, 450, 900}
    \cup (IF CentreDen(region) = 1
          THEN {region.height \div 2, region.height - 2, region.height - 1} ELSE {})

PixelInput(op, region, latitude, longitude, file, x, y) ==
    [op |-> op, region |-> region, latitude |-> latitude, longitude |-> longitude,
     den |-> 1, file |-> file, x |-> x, y |-> y,
     invoked |-> [exc |-> "none", value |-> <<0, 0>>], pixel |-> <<0, 0>>,
     read |-> [exc |-> "none", value |-> <<0, 0, 0>>]]

InitPixel ==
    /\ map_cache = EmptyCache
    /\ reads = [n \in RegionNames |-> 0]
    /\ call = Idle
    /\ threads = NoThreads
    /\ InitService
    /\ InitWeather
    /\ InitNearby
    /\ scan \in UNION {
           { PixelInput("point", CONTINENTS[i], lat, lon, file, 0, 0)
               : lat \in PixelLats(CONTINENTS[i]), lon \in PixelLons(CONTINENTS[i]),
                 file \in {"ok", "resized"} }
           \cup { PixelInput("cell", CONTINENTS[i], 0, 0, "ok", x, y)
                     : x \in CellXs(CONTINENTS[i]), y \in CellYs(CONTINENTS[i]) }
           : i \in 1..Len(CONTINENTS) }

\* Lines 93-94 / 275-276.
ToPixel ==
    /\ scan.op = "point"
    /\ scan' = [scan EXCEPT
           !.op = "pixel",
           !.invoked = latlon_to_pixel(<<scan.latitude, scan.longitude, scan.region>>),
           !.pixel = PixelOf(scan.latitude, scan.longitude, scan.region),
           !.read = ReadPixel([image |-> StoredImage(scan.region.filename),
                               shape |-> DecodedShape(scan.region, scan.file)],
                              PixelOf(scan.latitude, scan.longitude, scan.region)[2],
                              PixelOf(scan.latitude, scan.longitude, scan.region)[1])]
    /\ UNCHANGED <<map_cache, reads, call, threads, service_vars, weather_vars, nearby>>

\* _latlon_to_pixel applied to the result of _pixel_to_latlon.
RoundTrip ==
    /\ scan.op = "cell"
    /\ scan' = [scan EXCEPT
           !.op = "roundtrip",
           !.latitude = pixel_to_latlon(scan.x, scan.y, scan.region).latitude,
           !.longitude = pixel_to_latlon(scan.x, scan.y, scan.region).longitude,
           !.den = pixel_to_latlon(scan.x, scan.y, scan.region).den,
           !.invoked = latlon_to_pixel(<<pixel_to_latlon(scan.x, scan.y, scan.region).latitude,
                                         pixel_to_latlon(scan.x, scan.y, scan.region).longitude,
                                         scan.region>>),
           !.pixel = Project(pixel_to_latlon(scan.x, scan.y, scan.region).latitude,
                             pixel_to_latlon(scan.x, scan.y, scan.region).longitude,
                             pixel_to_latlon(scan.x, scan.y, scan.region).den,
                             scan.region)]
    /\ UNCHANGED <<map_cache, reads, call, threads, service_vars, weather_vars, nearby>>

NextPixel == ToPixel \/ RoundTrip

SpecPixel == InitPixel /\ [][NextPixel]_vars

(***************************************************************************)
(* The classifier alone: _get_light_pollution_level applied to an RGB      *)
(* triple.  A channel takes every value that occurs in the scale, the      *)
(* value halfway between the two darkest greys, and the top of the range.  *)
(***************************************************************************)
ChannelValues ==
    UNION { {LIGHT_POLLUTION_SCALE[i][1], LIGHT_POLLUTION_SCALE[i][2],
             LIGHT_POLLUTION_SCALE[i][3]} : i \in 1..Len(LIGHT_POLLUTION_SCALE) }
    \cup {17, 255}

InitClassify ==
    /\ map_cache = EmptyCache
    /\ reads = [n \in RegionNames |-> 0]
    /\ call = Idle
    /\ threads = NoThreads
    /\ InitService
    /\ InitWeather
    /\ InitNearby
    /\ scan \in { [op |-> "rgb", rgb |-> <<r, g, b>>, level |-> NoLevel]
                  : r \in ChannelValues, g \in ChannelValues, b \in ChannelValues }

Classify ==
    /\ scan.op = "rgb"
    /\ scan' = [scan EXCEPT !.op = "classify",
                            !.level = get_light_pollution_level(scan.rgb)]
    /\ UNCHANGED <<map_cache, reads, call, threads, service_vars, weather_vars, nearby>>

NextClassify == Classify

SpecClassify == InitClassify /\ [][NextClassify]_vars

(***************************************************************************)
(* _load_map_for_region called from several threads on one finder.  The    *)
(* method takes no lock, and a thread can be preempted between any two of  *)
(* its statements: the cache lookup (lines 192-193), the access to storage *)
(* (lines 195-200, which releases the interpreter lock) and the store      *)
(* (line 213) are separate steps.  pc of a thread: "idle", "lookup",       *)
(* "read", "store", "done".                                                *)
(***************************************************************************)
ThreadPoints == { <<Deg(40), Deg(-100)>>, <<0, Deg(94) + 10>>, <<0, Deg(-170)>> }

\* Lines 187-189: the region is resolved; the call raises when there is none.
Begin(t, latitude, longitude) ==
    /\ threads[t].pc = "idle"
    /\ threads' = [threads EXCEPT ![t] =
           IF IsNone(get_region_info(latitude, longitude))
           THEN [@ EXCEPT !.pc = "done", !.exc = "ValueError"]
           ELSE [@ EXCEPT !.pc = "lookup", !.region = get_region_info(latitude, longitude)]]
    /\ UNCHANGED <<map_cache, reads, call, scan, service_vars, weather_vars, nearby>>

\* Lines 191-193.
Lookup(t) ==
    /\ threads[t].pc = "lookup"
    /\ threads' = [threads EXCEPT ![t] =
           IF threads[t].region.name \in DOMAIN map_cache
           THEN [@ EXCEPT !.pc = "done", !.value = map_cache[threads[t].region.name]]
           ELSE [@ EXCEPT !.pc = "read"]]
    /\ UNCHANGED <<map_cache, reads, call, scan, service_vars, weather_vars, nearby>>

\* Lines 195-211.
Read(t, file) ==
    /\ threads[t].pc = "read"
    /\ threads' = [threads EXCEPT ![t] =
           IF file = "missing" THEN [@ EXCEPT !.pc = "done", !.exc = "FileNotFoundError"]
           ELSE IF file = "corrupt"
           THEN [@ EXCEPT !.pc = "done", !.exc = "UnidentifiedImageError"]
           ELSE [@ EXCEPT !.pc = "store",
                          !.map_array = [image |-> StoredImage(threads[t].region.filename),
                                         shape |-> DecodedShape(threads[t].region, file)]]]
    /\ reads' = [n \in RegionNames |->
                    IF n = threads[t].region.name /\ file \in {"ok", "resized"}
                    THEN reads[n] + 1 ELSE reads[n]]
    /\ UNCHANGED <<map_cache, call, scan, service_vars, weather_vars, nearby>>

\* Lines 213-214.
Store(t) ==
    /\ threads[t].pc = "store"
    /\ map_cache' = CachePut(map_cache, threads[t].region.name,
                             [map_array |-> threads[t].map_array,
                              region |-> threads[t].region])
    /\ threads' = [threads EXCEPT ![t] =
           [@ EXCEPT !.pc = "done",
                     !.value = [map_array |-> threads[t].map_array,
                                region |-> threads[t].region]]]
    /\ UNCHANGED <<reads, call, scan, service_vars, weather_vars, nearby>>

NextThreads ==
    \/ \E t \in Threads, p \in ThreadPoints : Begin(t, p[1], p[2])
    \/ \E t \in Threads : Lookup(t)
    \/ \E t \in Threads, file \in FileStates : Read(t, file)
    \/ \E t \in Threads : Store(t)

SpecThreads == Init /\ [][NextThreads]_vars

(***************************************************************************)
(* Properties of the radius search (SpecSearch).                           *)
(***************************************************************************)
Searched == scan.op = "search"

\* The level classified at the centre pixel of the search.
Baseline ==
    get_light_pollution_level(
        PixelAt(LoadedRaster(scan.image),
                PixelOf(scan.center_lat, scan.center_lon, SearchRegion)[2],
                PixelOf(scan.center_lat, scan.center_lon, SearchRegion)[1]))

\* A doubled level in the hundredths that light_pollution_index holds.
Hundredths(level) == 50 * level

\* The number of qualifying pixels: the length of the result of the same
\* search with a top_n that no window reaches.
Qualifying ==
    Len(search_from(LoadedRaster(scan.image), SearchRegion, scan.center_lat,
                    scan.center_lon, scan.radius_km, 1000))

Covers(i, latitude, longitude) ==
    /\ Deg(CONTINENTS[i].lat_min) <= latitude
    /\ latitude <= Deg(CONTINENTS[i].lat_max)
    /\ Deg(CONTINENTS[i].lon_min) <= longitude
    /\ longitude <= Deg(CONTINENTS[i].lon_max)

Covering(latitude, longitude) ==
    { i \in 1..Len(CONTINENTS) : Covers(i, latitude, longitude) }

Uncovered == Covering(call.latitude, call.longitude) = {}

\* C5: findOptimal on a centre that lies in no region returns the empty
\* sequence and raises nothing, for every radius and top_n.
UncoveredCentreReturnsEmpty ==
    (call.op = "findOptimal" /\ Uncovered) =>
        /\ call.exc = "none"
        /\ call.result = <<>>

\* findOptimal was called on an uncovered centre while a raster was cached.
UncoveredCentreQueried ==
    /\ call.op = "findOptimal"
    /\ Uncovered
    /\ call.radius_km = MaxRadius
    /\ DOMAIN map_cache # {}

\* C6: levelAt on a point that lies in no region returns none; it does not
\* raise.
UncoveredLevelIsNone ==
    (call.op = "levelAt" /\ Uncovered) =>
        /\ call.exc = "none"
        /\ call.level = NoLevel

\* C7: when the resource of the resolved region is missing, the load raises
\* the not-found error, findOptimal and levelAt propagate it instead of
\* returning, and the call touches storage once only.
MissingResourceRaises ==
    (call.op \in {"load", "findOptimal", "levelAt"} /\ call.file = "missing") =>
        /\ call.exc = "FileNotFoundError"
        /\ call.storage = <<"exists">>
        /\ call.region \notin DOMAIN map_cache

\* findOptimal found the resource of its region missing.
MissingResourceQueried ==
    /\ call.op = "findOptimal"
    /\ call.file = "missing"
    /\ ~Uncovered

\* C8: a query on a covered point whose raster is cached or exists and
\* decodes completes without raising.
CoveredQueriesComplete ==
    (/\ call.op \in {"findOptimal", "levelAt"}
     /\ ~Uncovered
     /\ call.hit \/ call.file = "ok") =>
        call.exc = "none"

\* C9: resolve returns the first catalogue region whose box contains the
\* point, edges included, and none when no box contains it.
ResolveFirstCovering ==
    call.op = "resolve" =>
        IF Uncovered THEN call.region = "None"
        ELSE call.region =
                 CONTINENTS[CHOOSE i \in Covering(call.latitude, call.longitude) :
                               \A j \in Covering(call.latitude, call.longitude) : i <= j].name

\* A point on an edge of the box that wins, inside a second box as well.
ResolvedOnSharedEdge ==
    /\ call.op = "resolve"
    /\ Cardinality(Covering(call.latitude, call.longitude)) >= 2
    /\ \E i \in Covering(call.latitude, call.longitude) :
          /\ call.region = CONTINENTS[i].name
          /\ call.latitude = Deg(CONTINENTS[i].lat_max)
          /\ call.longitude = Deg(CONTINENTS[i].lon_max)

\* C10: with one call at a time, the resource of a region is read at most
\* once: the first successful load reads and stores it, and a call for a
\* region already stored performs no storage operation.
AtMostOneReadPerRegion ==
    /\ \A n \in RegionNames : reads[n] <= 1
    /\ \A n \in RegionNames : n \in DOMAIN map_cache <=> reads[n] = 1
    /\ call.hit => call.storage = <<>>
    /\ (call.op \in {"load", "findOptimal", "levelAt"} /\ call.file = "ok") =>
           /\ ~call.hit
           /\ call.storage = <<"exists", "open">>
           /\ reads[call.region] = 1

\* A query served from the cache after the region was read once.
ServedFromCache ==
    /\ call.op = "findOptimal"
    /\ call.hit
    /\ reads[call.region] = 1

\* C11: the cache never evicts or replaces.  Every step keeps each stored
\* entry, with the same raster, and a load that returns hands back the entry
\* stored for its region: two loads of a region return the same pixels.
CacheNeverEvicts ==
    [][/\ \A n \in DOMAIN map_cache :
             /\ n \in DOMAIN map_cache'
             /\ map_cache'[n] = map_cache[n]
       /\ (call'.op = "load" /\ call'.exc = "none") =>
             /\ call'.region \in DOMAIN map_cache'
             /\ call'.value = map_cache'[call'.region]]_vars

\* A load served from the cache, which holds a second region as well, the
\* raster returned being the half-resolution one that was stored first.
LoadedTwiceSameRaster ==
    /\ call.op = "load"
    /\ call.hit
    /\ call.exc = "none"
    /\ Cardinality(DOMAIN map_cache) >= 2
    /\ call.value.map_array.shape # <<call.value.region.height, call.value.region.width>>

(***************************************************************************)
(* Properties of concurrent loads (SpecThreads).                           *)
(***************************************************************************)
\* The cache entry a thread built from the raster it read.
EntryOf(t) == [map_array |-> threads[t].map_array, region |-> threads[t].region]

\* C12: the cache has no lock.  A thread that found no entry for its region
\* reads storage whatever the cache has become since, and its store replaces
\* whatever entry is there: the last writer wins.
UnlockedLoadsRace ==
    [][\A t \in Threads :
          /\ (threads[t].pc = "lookup" /\ threads'[t].pc = "read") =>
                threads[t].region.name \notin DOMAIN map_cache
          /\ (threads[t].pc = "read" /\ threads'[t].pc = "store") =>
                reads'[threads[t].region.name] = reads[threads[t].region.name] + 1
          /\ (threads[t].pc = "store" /\ threads'[t].pc = "done") =>
                map_cache'[threads[t].region.name] = EntryOf(t)]_vars

\* Two threads loaded one region for the first time: both read its resource,
\* and the cache holds the raster of one while the other returned a
\* different one.
DuplicateReadLastWriterWins ==
    \E t, u \in Threads :
        /\ t # u
        /\ threads[t].pc = "done" /\ threads[u].pc = "done"
        /\ threads[t].exc = "none" /\ threads[u].exc = "none"
        /\ threads[t].region = threads[u].region
        /\ reads[threads[t].region.name] = 2
        /\ map_cache[threads[t].region.name] = threads[u].value
        /\ threads[t].value # threads[u].value

(***************************************************************************)
(* Properties of the classifier (SpecClassify).                            *)
(***************************************************************************)
\* The scale entries at the least squared distance from the triple.
Nearest(rgb) ==
    { i \in 1..Len(LIGHT_POLLUTION_SCALE) :
        \A j \in 1..Len(LIGHT_POLLUTION_SCALE) :
            SqDistance(rgb, LIGHT_POLLUTION_SCALE[i]) <= SqDistance(rgb, LIGHT_POLLUTION_SCALE[j]) }

\* C13: classify returns the level of the scale entry at the least squared
\* RGB distance, of several such entries the first in the order of the
\* scale; a colour of the scale gets its own level; the level returned is
\* always that of a nearest entry, never the initial value as such.
ClassifyNearestFirst ==
    scan.op = "classify" =>
        /\ \E i \in Nearest(scan.rgb) :
              /\ \A j \in Nearest(scan.rgb) : i <= j
              /\ scan.level = LIGHT_POLLUTION_SCALE[i][4]
        /\ \A i \in 1..Len(LIGHT_POLLUTION_SCALE) :
              scan.rgb = SubSeq(LIGHT_POLLUTION_SCALE[i], 1, 3) =>
                  scan.level = LIGHT_POLLUTION_SCALE[i][4]

\* A triple at the same distance from two entries, classified to the level
\* of the first of them.
ClassifiedOnTie ==
    /\ scan.op = "classify"
    /\ Cardinality(Nearest(scan.rgb)) = 2
    /\ \E i \in Nearest(scan.rgb) :
          /\ \E j \in Nearest(scan.rgb) : i < j
          /\ scan.level = LIGHT_POLLUTION_SCALE[i][4]

(***************************************************************************)
(* Properties of the projector (SpecPixel).                                *)
(***************************************************************************)
\* The linear projection of the point, rounded, before clamping.
Linear(latitude, longitude, den, region) ==
    << Round((longitude - Deg(region.lon_min) * den) * (region.width - 1),
             (Deg(region.lon_max) - Deg(region.lon_min)) * den),
       Round((Deg(region.lat_max) * den - latitude) * (region.height - 1),
             (Deg(region.lat_max) - Deg(region.lat_min)) * den) >>

Clamp(v, lo, hi) == IF v < lo THEN lo ELSE IF v > hi THEN hi ELSE v

\* What the statements of lines 236-248 compute once `region` is bound: the
\* pixel is the rounded linear projection clamped into the declared grid.
FormulasClamp ==
    scan.op = "pixel" =>
        /\ scan.pixel[1] \in 0..(scan.region.width - 1)
        /\ scan.pixel[2] \in 0..(scan.region.height - 1)
        /\ scan.pixel[1] = Clamp(Linear(scan.latitude, scan.longitude, 1, scan.region)[1],
                                 0, scan.region.width - 1)
        /\ scan.pixel[2] = Clamp(Linear(scan.latitude, scan.longitude, 1, scan.region)[2],
                                 0, scan.region.height - 1)

\* C14: for every point, on or outside the edges of the region included,
\* toPixel(lat, lon, region) returns a pixel inside the declared grid, equal
\* to the rounded linear projection clamped into it.
ToPixelReturnsClamped ==
    scan.op = "pixel" =>
        /\ scan.invoked.exc = "none"
        /\ scan.invoked.value[1] \in 0..(scan.region.width - 1)
        /\ scan.invoked.value[2] \in 0..(scan.region.height - 1)
        /\ scan.invoked.value[1] =
               Clamp(Linear(scan.latitude, scan.longitude, 1, scan.region)[1],
                     0, scan.region.width - 1)
        /\ scan.invoked.value[2] =
               Clamp(Linear(scan.latitude, scan.longitude, 1, scan.region)[2],
                     0, scan.region.height - 1)

\* The pixel lies off the border of the region's raster.
Interior(x, y, region) ==
    /\ 1 <= x /\ x <= region.width - 2
    /\ 1 <= y /\ y <= region.height - 2

Abs(v) == IF v < 0 THEN 0 - v ELSE v

\* What the statements of the two bodies compute once `region` is bound: the
\* centre of a pixel projects back onto that very pixel.
FormulasRoundTrip ==
    scan.op = "roundtrip" => scan.pixel = <<scan.x, scan.y>>

\* C15: for every region and every interior pixel (x, y) of its raster,
\* toPixel(toLatLon(x, y, region), region) returns a pixel within one column
\* and one row of (x, y).
RoundTripWithinOnePixel ==
    (scan.op = "roundtrip" /\ Interior(scan.x, scan.y, scan.region)) =>
        /\ scan.invoked.exc = "none"
        /\ Abs(scan.invoked.value[1] - scan.x) <= 1
        /\ Abs(scan.invoked.value[2] - scan.y) <= 1

\* The load of a resource whose image has other dimensions than declared
\* succeeds and stores the decoded raster as it is (lines 202-214).
MismatchedRasterCached ==
    (call.op = "load" /\ call.file = "resized") =>
        /\ call.exc = "none"
        /\ call.value.map_array.shape # <<call.value.region.height, call.value.region.width>>
        /\ map_cache[call.region] = call.value

\* C16: when the loaded raster's dimensions differ from the declared ones,
\* the pixel computed for a point is computed from the loaded raster's
\* dimensions, so that it lies inside the loaded grid and the read of the
\* raster at that pixel succeeds.
PixelInsideLoadedRaster ==
    scan.op = "pixel" =>
        /\ scan.pixel[1] < DecodedShape(scan.region, scan.file)[2]
        /\ scan.pixel[2] < DecodedShape(scan.region, scan.file)[1]
        /\ scan.read.exc = "none"

(***************************************************************************)
(* Properties of the queries on a loaded raster (Spec).                    *)
(***************************************************************************)
\* The raster the engine holds for the region of the last call.
CachedRaster == map_cache[call.region].map_array

\* The pixel of the last call's point, by the projector's formulas.
CallPixel == PixelOf(call.latitude, call.longitude, CONTINENTS[CHOOSE i \in 1..Len(CONTINENTS) : CONTINENTS[i].name = call.region])

\* The baseline of the last call: the level classified at CallPixel.
CallBaseline == get_light_pollution_level(PixelAt(CachedRaster, CallPixel[2], CallPixel[1]))

\* Pixels around CallPixel, as <<x, y>>: all those within MaxRadius km of the
\* point are among them.
Neighbourhood ==
    { <<CallPixel[1] + dx, CallPixel[2] + dy>> :
        dx \in (0 - MaxRadius - 1)..(MaxRadius + 1),
        dy \in (0 - MaxRadius - 1)..(MaxRadius + 1) }

\* The pixels of level 0 whose centre lies within radius_km of the point.
DarkestWithinRadius ==
    { p \in Neighbourhood :
        /\ get_light_pollution_level(PixelAt(CachedRaster, p[2], p[1])) = 0
        /\ haversine(call.latitude, call.longitude,
                     PixelLat(p[2], map_cache[call.region].region),
                     PixelLon(p[1], map_cache[call.region].region)) <= Km(call.radius_km) }

\* Result i of the last call is the pixel p.
ResultIs(i, p) ==
    /\ call.result[i].latitude = PixelLat(p[2], map_cache[call.region].region)
    /\ call.result[i].longitude = PixelLon(p[1], map_cache[call.region].region)

\* C17: when the centre pixel classifies to level 5 and a pixel of level 0
\* lies within the radius, findOptimal returns a sequence that holds that
\* pixel, before every result of a level above 0.
DarkestSpotRankedFirst ==
    (/\ call.op = "findOptimal"
     /\ call.region \in DOMAIN map_cache
     /\ CallBaseline = 2 * 5) =>
        \A p \in DarkestWithinRadius :
            /\ call.exc = "none"
            /\ \E i \in 1..Len(call.result) :
                  /\ ResultIs(i, p)
                  /\ \A j \in 1..Len(call.result) :
                        call.result[j].light_pollution_index > 0 => i < j

\* The same on the search stage (SpecSearch), where the projections return:
\* the pixels of level 0 within the radius of the centre of the search.
SearchDarkest ==
    { p \in { <<PixelOf(scan.center_lat, scan.center_lon, SearchRegion)[1] + dx,
                PixelOf(scan.center_lat, scan.center_lon, SearchRegion)[2] + dy>> :
                  dx \in (0 - MaxRadius - 1)..(MaxRadius + 1),
                  dy \in (0 - MaxRadius - 1)..(MaxRadius + 1) } :
        /\ p[1] >= 0
        /\ p[2] >= 0
        /\ get_light_pollution_level(PixelAt(LoadedRaster(scan.image), p[2], p[1])) = 0
        /\ haversine(scan.center_lat, scan.center_lon,
                     PixelLat(p[2], SearchRegion), PixelLon(p[1], SearchRegion))
               <= Km(scan.radius_km) }

\* Once the projections return, a level-0 pixel within the radius of a
\* level-5 centre is returned, ahead of every brighter result, provided top_n
\* does not cut the level-0 pixels; a smaller top_n leaves some of them out.
DarkestRankedFirstWhenUncut ==
    (Searched /\ Baseline = 2 * 5 /\ scan.top_n >= Cardinality(SearchDarkest)) =>
        \A p \in SearchDarkest :
            \E i \in 1..Len(scan.result) :
                /\ scan.result[i].latitude = PixelLat(p[2], SearchRegion)
                /\ scan.result[i].longitude = PixelLon(p[1], SearchRegion)
                /\ \A j \in 1..Len(scan.result) :
                      scan.result[j].light_pollution_index > 0 => i < j

\* C18: for a covered point whose raster is loaded, levelAt returns the
\* baseline findOptimal uses for the same centre: the level classified at
\* the pixel of the point in the raster of its region.
LevelAtGivesBaseline ==
    (call.op = "levelAt" /\ call.region \in DOMAIN map_cache) =>
        /\ call.exc = "none"
        /\ call.level = CallBaseline

(***************************************************************************)
(* Properties of the sky visibility service (SpecService).                 *)
(***************************************************************************)
\* C19: get_sky_visibility never raises, whatever fails inside it; it returns
\* a record with bortle_scale in 1..9, visibility_score in [0, 100],
\* confidence in [0, 1] and source one of ml_model, heuristic, fallback.
SkyVisibilityAlwaysValid ==
    visibility.op = "get" =>
        /\ visibility.exc = "none"
        /\ visibility.value.bortle_scale \in 1..9
        /\ visibility.value.visibility_score \in 0..1000
        /\ visibility.value.confidence \in 0..100
        /\ visibility.value.source \in {"ml_model", "heuristic", "fallback"}

\* A call whose prediction raised and whose heuristic raised as well (the
\* latitude is not a number), the model being loaded: the fallback record was
\* returned.
HeuristicFailureAnswered ==
    /\ visibility.op = "get"
    /\ ~visibility.hit
    /\ visibility.loaded
    /\ ~visibility.point.numeric
    /\ visibility.value.source = "fallback"

\* The ML prediction of the last call could not be obtained: the model could
\* not be loaded, or the prediction raised.
MLUnavailable ==
    \/ ~visibility.loaded /\ visibility.file \in {"missing", "corrupt"}
    \/ visibility.prediction.raises
    \/ ~visibility.point.numeric

\* C20: whenever the ML prediction cannot be obtained, the model that cannot
\* be loaded included, the result comes from the heuristic (source heuristic,
\* confidence 0.60); the fallback record is returned only when the heuristic
\* itself fails.
UnavailableModelGivesHeuristic ==
    (visibility.op = "get" /\ ~visibility.hit /\ MLUnavailable) =>
        IF visibility.point.numeric
        THEN /\ visibility.value.source = "heuristic"
             /\ visibility.value.confidence = 60
             /\ visibility.value.bortle_scale =
                    predict_heuristic(visibility.point.latitude,
                                      visibility.point.longitude, TRUE).value
        ELSE visibility.value.source = "fallback"

\* What the code does instead: a prediction that raises on a loaded model is
\* answered by the heuristic, a model that cannot be loaded by the fallback
\* record.
UnloadableModelGivesFallback ==
    (visibility.op = "get" /\ ~visibility.hit /\ visibility.point.numeric) =>
        /\ (~visibility.loaded /\ visibility.file \in {"missing", "corrupt"}) =>
               visibility.value = fallback_record
        /\ ((visibility.loaded \/ visibility.file = "ok") /\ visibility.prediction.raises) =>
               visibility.value.source = "heuristic"

\* C21: every outcome of get_sky_visibility, the fallback record included, has
\* visibility_score = (9 - bortle_scale) / 8 * 100 within 0.1 (scores are in
\* tenths) and sky_quality = get_sky_quality_description(bortle_scale).
ScoreAndQualityFollowBortle ==
    visibility.op = "get" =>
        /\ Abs(8 * visibility.value.visibility_score
                 - (9 - visibility.value.bortle_scale) * 1000) <= 8
        /\ visibility.value.sky_quality =
               get_sky_quality_description(visibility.value.bortle_scale)

\* A body run answered by the model with a Bortle scale other than that of
\* the fallback record.
ModelOutcomeScored ==
    /\ visibility.op = "get"
    /\ ~visibility.hit
    /\ visibility.value.source = "ml_model"
    /\ visibility.value.bortle_scale = 9
    /\ visibility.value.visibility_score = 0

\* C22: each weather getter (get_cloudiness, get_moon_brightness,
\* get_bortle_scale) returns a record that has the key 'source', with the
\* value 'scraped' or 'fallback', whether the page was fetched and parsed,
\* fetched without the extraction succeeding, or not fetched.
GetterRecordsCarrySource ==
    weather.op \in Getters =>
        /\ "source" \in DOMAIN weather.value
        /\ weather.value["source"] \in {"scraped", "fallback"}

\* What the code does instead: get_cloudiness always names its source;
\* get_moon_brightness leaves it out exactly when no page was fetched, and
\* get_bortle_scale whenever it does not scrape.
SourceMissingFromFallbacks ==
    (weather.op \in Getters /\ ~weather.hit) =>
        LET soup == fetchers[weather.point].soup
            scraped == soup.fetched /\ weather.op \notin soup.page.raises
        IN /\ ("source" \in DOMAIN weather.value) =
                 CASE weather.op = "get_cloudiness" -> TRUE
                   [] weather.op = "get_moon_brightness" -> soup.fetched
                   [] OTHER -> scraped
           /\ "source" \in DOMAIN weather.value =>
                 weather.value["source"] = IF scraped THEN "scraped" ELSE "fallback"

\* The fallback answers of a getter.
FallbackAnswers(getter) ==
    CASE getter = "get_cloudiness" -> {fallback_cloudiness(hour) : hour \in Hours}
      [] getter = "get_moon_brightness" -> {fallback_moon_data(days) : days \in Days}
      [] OTHER -> {fallback_bortle}

\* C30: a ClearOutsideWeatherFetcher makes exactly one HTTP request in its
\* lifetime, the one of its construction: no sequence of getters makes
\* another, and after a failed request every getter answers from its
\* fallback without trying again.
OneRequestPerFetcher ==
    /\ \A p \in DOMAIN fetchers : fetchers[p].requests = 1
    /\ (weather.op \in Getters /\ ~weather.hit) =>
          /\ weather.requests = 1
          /\ ~fetchers[weather.point].soup.fetched =>
                weather.value \in FallbackAnswers(weather.op)

\* A getter that ran on a fetcher built by an earlier call, whose request
\* had failed.
GetterAfterFailedRequest ==
    /\ weather.op = "get_cloudiness"
    /\ ~weather.hit
    /\ ~weather.constructed
    /\ ~fetchers[weather.point].soup.fetched
    /\ weather.requests = 1
    /\ weather.value.source = "fallback"

\* The result describes a row of the dataset that lies within the radius.
DescribesNearbyRow(result) ==
    \E k \in 1..Len(nearby.dataset.rows) :
        /\ nearby.dataset.rows[k].located
        /\ haversine_distance(nearby.latitude, nearby.longitude,
                              nearby.dataset.rows[k].Latitude,
                              nearby.dataset.rows[k].Longitude) <= Km(nearby.radius_km)
        /\ result = location_dict(nearby.dataset.rows[k], nearby.latitude, nearby.longitude)

\* What C23 says of a call apart from the count: every record is for a row
\* within radius_km, the records are in non-decreasing distance, and a
\* failure inside the call gives the empty list, never an exception.
NearbyWithinRadiusSortedSafe ==
    /\ \A i \in 1..Len(nearby.result) : DescribesNearbyRow(nearby.result[i])
    /\ \A i \in 1..(Len(nearby.result) - 1) :
          nearby.result[i].distance_km <= nearby.result[i + 1].distance_km
    /\ nearby.exc = "none"
    /\ nearby.dataset.file # "ok" => nearby.result = <<>>

\* C23: find_nearby_observation_locations(lat, lon, radius_km, top_n) returns
\* at most top_n records, each for a dataset row within radius_km of the
\* target, in non-decreasing distance; an internal failure gives the empty
\* list.
NearbyAtMostTopN ==
    nearby.op # "none" =>
        /\ Len(nearby.result) <= nearby.top_n
        /\ NearbyWithinRadiusSortedSafe

\* C23, amended: the count is bounded by top_n when top_n >= 0.
NearbyAtMostNaturalTopN ==
    nearby.op # "none" =>
        /\ nearby.top_n >= 0 => Len(nearby.result) <= nearby.top_n
        /\ NearbyWithinRadiusSortedSafe

\* A call that found more rows within the radius than it was asked for, two
\* of them at the same distance, and returned the nearest top_n.
NearestRowsReturned ==
    /\ nearby.op = "find_nearby_observation_locations"
    /\ nearby.top_n = 2
    /\ Len(nearby_rows(nearby.dataset.rows, nearby.latitude, nearby.longitude,
                       nearby.radius_km, 1)) > 2
    /\ Len(nearby.result) = 2
    /\ nearby.result[1].distance_km = nearby.result[2].distance_km

\* With top_n = -1 the call returns all the rows within the radius but the
\* farthest.
NegativeTopNKeepsRows ==
    (nearby.op # "none" /\ nearby.top_n < 0 /\ nearby.dataset.file = "ok") =>
        Len(nearby.result) =
            Max(Len(nearby_rows(nearby.dataset.rows, nearby.latitude, nearby.longitude,
                                nearby.radius_km, 1)) + nearby.top_n, 0)

\* Pixel p ranks strictly before pixel q from the point (latitude, longitude)
\* in the raster: a lower level, or the same level at a smaller distance.
RanksBefore(p, q, map_array, region, latitude, longitude) ==
    LET level(c) == get_light_pollution_level(PixelAt(map_array, c[2], c[1]))
        distance(c) == haversine(latitude, longitude,
                                 PixelLat(c[2], region), PixelLon(c[1], region))
    IN  \/ level(p) < level(q)
        \/ level(p) = level(q) /\ distance(p) < distance(q)

\* The qualifying pixels of the last call: within radius_km of its point and
\* strictly darker than CallBaseline.
CallQualifying ==
    { p \in Neighbourhood :
        /\ p[1] >= 0
        /\ p[2] >= 0
        /\ get_light_pollution_level(PixelAt(CachedRaster, p[2], p[1])) < CallBaseline
        /\ haversine(call.latitude, call.longitude,
                     PixelLat(p[2], map_cache[call.region].region),
                     PixelLon(p[1], map_cache[call.region].region)) <= Km(call.radius_km) }

\* C24: on a loaded raster findOptimal with topN >= 0 returns min(topN, q)
\* results, each a qualifying pixel, and no qualifying pixel left out ranks
\* strictly before a returned one in the (level, distance) order.
ReturnsRankedPrefix ==
    (/\ call.op = "findOptimal"
     /\ call.region \in DOMAIN map_cache
     /\ call.top_n >= 0) =>
        /\ call.exc = "none"
        /\ Len(call.result) = Min(call.top_n, Cardinality(CallQualifying))
        /\ \A i \in 1..Len(call.result) : \E p \in CallQualifying : ResultIs(i, p)
        /\ \A q \in CallQualifying :
              \/ \E i \in 1..Len(call.result) : ResultIs(i, q)
              \/ \A i \in 1..Len(call.result) : \A p \in CallQualifying :
                    ResultIs(i, p) =>
                        ~RanksBefore(q, p, CachedRaster, map_cache[call.region].region,
                                     call.latitude, call.longitude)

\* The same on the search stage: the qualifying pixels of the search.
SearchQualifying ==
    { p \in { <<PixelOf(scan.center_lat, scan.center_lon, SearchRegion)[1] + dx,
                PixelOf(scan.center_lat, scan.center_lon, SearchRegion)[2] + dy>> :
                  dx \in (0 - MaxRadius - 1)..(MaxRadius + 1),
                  dy \in (0 - MaxRadius - 1)..(MaxRadius + 1) } :
        /\ p[1] >= 0
        /\ p[2] >= 0
        /\ get_light_pollution_level(PixelAt(LoadedRaster(scan.image), p[2], p[1])) < Baseline
        /\ haversine(scan.center_lat, scan.center_lon,
                     PixelLat(p[2], SearchRegion), PixelLon(p[1], SearchRegion))
               <= Km(scan.radius_km) }

\* Result i of the search is the pixel p.
ScanResultIs(i, p) ==
    /\ scan.result[i].latitude = PixelLat(p[2], SearchRegion)
    /\ scan.result[i].longitude = PixelLon(p[1], SearchRegion)

\* Once the projections return, the search gives the first min(top_n, q) of
\* the ranking of its qualifying pixels.
RankedPrefixOnceProjected ==
    (Searched /\ scan.top_n >= 0) =>
        /\ Len(scan.result) = Min(scan.top_n, Cardinality(SearchQualifying))
        /\ \A i \in 1..Len(scan.result) : \E p \in SearchQualifying : ScanResultIs(i, p)
        /\ \A q \in SearchQualifying :
              \/ \E i \in 1..Len(scan.result) : ScanResultIs(i, q)
              \/ \A i \in 1..Len(scan.result) : \A p \in SearchQualifying :
                    ScanResultIs(i, p) =>
                        ~RanksBefore(q, p, LoadedRaster(scan.image), SearchRegion,
                                     scan.center_lat, scan.center_lon)

\* C25: on a loaded raster, whenever some pixel within radius_km of the
\* point is strictly darker than the centre pixel, findOptimal with
\* topN >= 1 returns a sequence that is not empty.
DarkerPixelNeverMissed ==
    (/\ call.op = "findOptimal"
     /\ call.region \in DOMAIN map_cache
     /\ call.top_n >= 1
     /\ CallQualifying # {}) =>
        /\ call.exc = "none"
        /\ call.result # <<>>

\* The same on the search stage: neither the bounding box nor the pixel
\* window nor the guard of the degenerate window hides a darker pixel that
\* lies within the radius.
DarkerPixelFoundOnceProjected ==
    (Searched /\ scan.top_n >= 1 /\ SearchQualifying # {}) => scan.result # <<>>

\* The pixels around the centre of the search, inside the raster.
SearchPixels ==
    { p \in { <<PixelOf(scan.center_lat, scan.center_lon, SearchRegion)[1] + dx,
                PixelOf(scan.center_lat, scan.center_lon, SearchRegion)[2] + dy>> :
                  dx \in (0 - MaxRadius - 1)..(MaxRadius + 1),
                  dy \in (0 - MaxRadius - 1)..(MaxRadius + 1) } :
        /\ p[1] >= 0 /\ p[1] < SearchRegion.width
        /\ p[2] >= 0 /\ p[2] < SearchRegion.height }

\* The record r describes the pixel p: the centre of p, inside the box of
\* the region, its distance from the centre of the search, and the level
\* classified from its colour.
FaithfulRecord(r, p) ==
    /\ r.latitude = PixelLat(p[2], SearchRegion)
    /\ r.longitude = PixelLon(p[1], SearchRegion)
    /\ r.latitude >= Deg(SearchRegion.lat_min) /\ r.latitude <= Deg(SearchRegion.lat_max)
    /\ r.longitude >= Deg(SearchRegion.lon_min) /\ r.longitude <= Deg(SearchRegion.lon_max)
    /\ r.distance_km = haversine(scan.center_lat, scan.center_lon,
                                 PixelLat(p[2], SearchRegion), PixelLon(p[1], SearchRegion))
    /\ r.light_pollution_index =
           Hundredths(get_light_pollution_level(PixelAt(LoadedRaster(scan.image), p[2], p[1])))
    /\ r.bortle_score = r.light_pollution_index

QueriesAddOwnEntryOnly ==
    [][call'.op \in {"findOptimal", "levelAt"} =>
          /\ \A n \in DOMAIN map_cache :
                /\ n \in DOMAIN map_cache'
                /\ map_cache'[n] = map_cache[n]
          /\ DOMAIN map_cache' \subseteq DOMAIN map_cache \cup {call'.region}
          /\ DOMAIN map_cache' # DOMAIN map_cache =>
                /\ call'.region \notin DOMAIN map_cache
                /\ map_cache'[call'.region].region.name = call'.region]_vars

\* A query that added the entry of its region to a cache that held another
\* region, and then raised in the projection.
QueryAddedSecondEntry ==
    /\ call.op = "findOptimal"
    /\ ~call.hit
    /\ call.exc = "TypeError"
    /\ call.region \in DOMAIN map_cache
    /\ Cardinality(DOMAIN map_cache) >= 2

\* C28: a call that ends in a coverage miss or in a failed load leaves the
\* cache as it was, the coverage miss without touching the storage; the
\* cache holds decoded rasters only, each under the name of its region, and
\* a region without an entry is looked for in the storage again.
FailuresLeaveCacheAlone ==
    [][/\ (/\ call'.op \in {"load", "findOptimal", "levelAt"}
           /\ \/ call'.region = "None"
              \/ call'.exc \in {"FileNotFoundError", "UnidentifiedImageError"}) =>
             /\ map_cache' = map_cache
             /\ call'.region = "None" => call'.storage = <<>>
       /\ \A n \in DOMAIN map_cache' :
             /\ map_cache'[n].region.name = n
             /\ map_cache'[n].map_array.image = StoredImage(map_cache'[n].region.filename)
       /\ (/\ call'.op \in {"load", "findOptimal", "levelAt"}
           /\ call'.region # "None"
           /\ call'.region \notin DOMAIN map_cache) =>
             /\ call'.storage # <<>>
             /\ call'.storage[1] = "exists"]_vars

\* A load that failed on an undecodable resource, the cache holding another
\* region and still no entry for this one.
FailedLoadNotCached ==
    /\ call.op = "levelAt"
    /\ call.exc = "UnidentifiedImageError"
    /\ call.storage = <<"exists", "open">>
    /\ call.region \notin DOMAIN map_cache
    /\ map_cache # EmptyCache

\* The resource state a cached raster was decoded from.
FileOf(entry) ==
    IF entry.map_array.shape = <<entry.region.height, entry.region.width>>
    THEN "ok" ELSE "resized"

\* C29: a query served from the cache ends as the same query on an engine
\* with an empty cache that loads the unchanged resource: the same raster is
\* worked on, and the same exception, result and level come back.
CacheIsTransparent ==
    (call.op \in {"findOptimal", "levelAt"} /\ call.hit) =>
        LET fresh == IF call.op = "findOptimal"
                     THEN find_optimal_locations(EmptyCache, call.latitude, call.longitude,
                                                 call.radius_km, call.top_n,
                                                 FileOf(map_cache[call.region]))
                     ELSE get_light_pollution_at(EmptyCache, call.latitude, call.longitude,
                                                 FileOf(map_cache[call.region]))
        IN  /\ call.exc = fresh.exc
            /\ call.result = fresh.result
            /\ call.level = fresh.level
            /\ call.value = fresh.value

\* A query answered from a cached raster of half the declared size.
ServedFromResizedEntry ==
    /\ call.op = "levelAt"
    /\ call.hit
    /\ FileOf(map_cache[call.region]) = "resized"

====
